---- MODULE Spec2Model ----
(***************************************************************************)
(* GeneFlow workflow runtime (Workflow.initialize, Workflow.run and the    *)
(* job status store) and the step executors (local, gridengine, slurm,     *)
(* agave) it drives: DAG nodes in topological order, the phases of a step, *)
(* map items, run attempts, the throttle counter and the backend jobs.     *)
(***************************************************************************)
EXTENDS Integers, Sequences, FiniteSets, TLC

\* ---------------------------------------------------------------- bounds
MaxItems == 2
MaxThrottle == 2
MaxSub == 2
MaxEndpoints == 2
MaxTo == 2
MaxJobs == 6
MaxExit == 2
MaxSlug == 31

\* ------------------------------------------------------ program constants
MaxAttempt == 5

Contexts == {"local", "gridengine", "slurm", "agave"}

VARIABLES
    context,        \* step['execution']['context']
    throttle_limit, \* self._throttle_limit (0 = unlimited)
    map,            \* self._map of the step being processed
    num_running,    \* self._num_running of the step being processed
    job,            \* backend: the job whose id run[attempt] holds
    pc,             \* position of the runtime in initialize() / run()
    nsub,           \* history: backend submissions made for (item, attempt)
    blocked,        \* history: the throttle refused the retry of the item
    checkpoint,     \* per step: step['checkpoint'] as read by checkpoint()
                    \* and the value checkpoint() returned
    msg,            \* the message handed to Workflow._fatal
    status,         \* Workflow._status
    db,             \* status store: persisted status and message of the job
    started,        \* status store: committed writes of the start time
    finished,       \* status store: committed writes of the finish time
    notified,       \* statuses posted to the notification endpoint
    notifications,  \* job['notifications'] is not empty
    dag,            \* edges of the workflow graph
    order,          \* self._dag.get_topological_sort()
    idx,            \* index in order of the node the for loop is at
    began,          \* history: nodes whose processing has begun
    done,           \* history: nodes staged successfully
    finaled,        \* history: steps whose stage_final succeeded
    endpoints,      \* job['notifications']: recipients of each endpoint
    posts,          \* history: requests.post calls (status, endpoint, to)
    warnings,       \* history: warnings logged by _send_notifications
    graph,          \* launcher: step dependencies of the workflow definition
    jobs,           \* launcher: the state of every job handed to the pool
    effects,        \* history: records, contexts and directories created
    lpc,            \* position of the run command
    ret,            \* value returned by the run command
    stepctx,        \* execution context of every step of the job
    session,        \* the DRMAA session of each DRMAA context
    inited,         \* self._workflow_context: contexts initialized
    made,           \* history: work/output directories and DAG created
    handle,         \* the session each step was handed (0: none)
    submitted,      \* history: jobs submitted by the steps of the run
    polling,        \* the step that is submitting and polling jobs
    fn_in,          \* the backend answer or the name parts handed to a step
    fn_out          \* what the operation applied to fn_in recorded or returned

confVars == <<context, throttle_limit>>
loopVars == <<map, num_running, job, nsub, blocked>>
storeVars == <<status, db, started, finished, notified>>
jobVars == <<notifications, dag, order>>
travVars == <<idx, began, done, finaled>>

ntVars == <<endpoints, posts, warnings>>
cliVars == <<graph, jobs, effects, lpc, ret>>
ctxVars == <<stepctx, session, inited, made, handle, submitted, polling>>
fnVars == <<fn_in, fn_out>>
extVars == <<ntVars, cliVars, ctxVars, fnVars>>

vars == <<confVars, loopVars, pc, checkpoint, msg, storeVars, jobVars,
          travVars, extVars>>

Min(a, b) == IF a < b THEN a ELSE b

\* A map item as built by iterate_map_uri: status PENDING, attempt 0 and
\* run = [{}].  run holds the status of every run-attempt record ("ABSENT"
\* for a record without a status key); id and hpc tell whether the latest
\* record run[attempt] holds a backend job identifier (pid/proc, hpc_job_id
\* or agave_job_id) and a non-empty hpc_job_id taken from the agave job
\* history.  Identifiers of earlier attempts are never read again.
NewMapItem ==
    [status |-> "PENDING", attempt |-> 0, run |-> <<"ABSENT">>,
     id |-> FALSE, hpc |-> FALSE]

Items == DOMAIN map

SetStatus(m, i, s) == [m EXCEPT ![i].status = s]
SetRunStatus(m, i, s) == [m EXCEPT ![i].run[m[i].attempt + 1] = s]
SetBoth(m, i, s) == SetRunStatus(SetStatus(m, i, s), i, s)

\* The part of the state the handlers of a step read and write; ret is the
\* value returned by the handler, crash an exception that leaves it.
StepState ==
    [map |-> map, num_running |-> num_running, job |-> job, nsub |-> nsub,
     blocked |-> blocked, ret |-> TRUE, crash |-> FALSE]

\* Outcomes of one submission: accepted by the backend, communication
\* exception of the DRMAA session, or a failure reported through _fatal.
SubmitOutcomes == {"ok", "comm", "fatal"}

\* The backend accepted a job for map item i: its id is stored in
\* run[attempt], the item and the run attempt get status s.
Submitted(st, i, s) ==
    [st EXCEPT !.map = SetBoth([st.map EXCEPT ![i].id = TRUE,
                                              ![i].hpc = FALSE], i, s),
               !.job = [st.job EXCEPT ![i] = "active"],
               !.nsub = [st.nsub EXCEPT ![i] = Min(@ + 1, MaxSub)],
               !.ret = TRUE]

\* Mutant of Appended: the new record is appended, attempt is not incremented.
Appended_NoIncrement(st, i) ==
    [st EXCEPT !.map = [st.map EXCEPT ![i].run = Append(@, "ABSENT"),
                                      ![i].id = FALSE,
                                      ![i].hpc = FALSE],
               !.job = [st.job EXCEPT ![i] = "none"],
               !.nsub = [st.nsub EXCEPT ![i] = 0],
               !.blocked = [st.blocked EXCEPT ![i] = FALSE]]

\* attempt += 1; run.append({})
Appended(st, i) ==
    [st EXCEPT !.map = [st.map EXCEPT ![i].attempt = @ + 1,
                                      ![i].run = Append(@, "ABSENT"),
                                      ![i].id = FALSE,
                                      ![i].hpc = FALSE],
               !.job = [st.job EXCEPT ![i] = "none"],
               !.nsub = [st.nsub EXCEPT ![i] = 0],
               !.blocked = [st.blocked EXCEPT ![i] = FALSE]]

\* ------------------------------------------------------------ gridengine
\* Mutant of Gridengine_job_status_map: a job on hold is not known.
Gridengine_job_status_map_HoldUnknown(d) ==
    CASE d = "UNDETERMINED"        -> "UNKNOWN"
      [] d = "QUEUED_ACTIVE"       -> "QUEUED"
      [] d = "SYSTEM_ON_HOLD"      -> "UNKNOWN"
      [] d = "USER_ON_HOLD"        -> "UNKNOWN"
      [] d = "USER_SYSTEM_ON_HOLD" -> "UNKNOWN"
      [] d = "RUNNING"             -> "RUNNING"
      [] d = "SYSTEM_SUSPENDED"    -> "RUNNING"
      [] d = "USER_SUSPENDED"      -> "RUNNING"
      [] d = "DONE"                -> "FINISHED"
      [] OTHER                     -> "FAILED"

Gridengine_job_status_map(d) ==
    CASE d = "UNDETERMINED"        -> "UNKNOWN"
      [] d = "QUEUED_ACTIVE"       -> "QUEUED"
      [] d = "SYSTEM_ON_HOLD"      -> "QUEUED"
      [] d = "USER_ON_HOLD"        -> "QUEUED"
      [] d = "USER_SYSTEM_ON_HOLD" -> "QUEUED"
      [] d = "RUNNING"             -> "RUNNING"
      [] d = "SYSTEM_SUSPENDED"    -> "RUNNING"
      [] d = "USER_SUSPENDED"      -> "RUNNING"
      [] d = "DONE"                -> "FINISHED"
      [] OTHER                     -> "FAILED"

Gridengine_run_map(st, i, o) ==
    CASE o = "fatal" -> [st EXCEPT !.ret = FALSE]
      [] o = "comm"  -> [st EXCEPT !.map = SetBoth(st.map, i, "FAILED"),
                                   !.ret = TRUE]
      [] OTHER       -> Submitted(st, i, "QUEUED")

\* Mutant of Gridengine_run_loop: the loop does not stop at the throttle limit.
RECURSIVE Gridengine_run_loop_NoBreak(_, _, _)
Gridengine_run_loop_NoBreak(st, i, out) ==
    IF i > Len(st.map) THEN st
    ELSE IF st.map[i].status = "PENDING"
    THEN LET r == Gridengine_run_map(st, i, out[i]) IN
         IF ~r.ret
         THEN Gridengine_run_loop_NoBreak(
                  [r EXCEPT !.map = SetBoth(r.map, i, "FAILED"), !.ret = TRUE],
                  i + 1, out)
         ELSE Gridengine_run_loop_NoBreak(
                  [r EXCEPT !.num_running = @ + 1], i + 1, out)
    ELSE Gridengine_run_loop_NoBreak(st, i + 1, out)

RECURSIVE Gridengine_run_loop(_, _, _)
Gridengine_run_loop(st, i, out) ==
    IF i > Len(st.map) THEN st
    ELSE IF st.map[i].status = "PENDING"
    THEN LET r == Gridengine_run_map(st, i, out[i]) IN
         IF ~r.ret
         THEN Gridengine_run_loop(
                  [r EXCEPT !.map = SetBoth(r.map, i, "FAILED"), !.ret = TRUE],
                  i + 1, out)
         ELSE LET s2 == [r EXCEPT !.num_running = @ + 1] IN
              IF throttle_limit > 0 /\ s2.num_running >= throttle_limit
              THEN s2
              ELSE Gridengine_run_loop(s2, i + 1, out)
    ELSE Gridengine_run_loop(st, i + 1, out)

Gridengine_run(st, out) ==
    IF throttle_limit > 0 /\ st.num_running >= throttle_limit
    THEN st
    ELSE Gridengine_run_loop(st, 1, out)

Gridengine_retry_failed(st, i, o) == Gridengine_run_map(Appended(st, i), i, o)

\* Mutant of Gridengine_check_item: the retry test reads attempt <= 5.
Gridengine_check_item_RetryAtLimit(st, i, r) ==
    LET polled == st.map[i].status \notin {"FINISHED", "FAILED", "PENDING"}
        s1 == IF ~polled THEN st.map[i].status
              ELSE IF r.poll = "comm" THEN "UNKNOWN"
              ELSE Gridengine_job_status_map(r.poll)
        waited == polled /\ s1 \in {"FINISHED", "FAILED"}
        s2 == IF waited /\ r.exit > 0 THEN "FAILED" ELSE s1
        a2 == [st EXCEPT
                 !.map = SetBoth(st.map, i, s2),
                 !.num_running = IF waited /\ @ > 0 THEN @ - 1 ELSE @,
                 !.job = [st.job EXCEPT ![i] = IF waited THEN "none" ELSE @]]
    IN  IF polled /\ ~st.map[i].id
        THEN [st EXCEPT !.crash = TRUE]
        ELSE IF s2 = "FAILED" /\ a2.map[i].attempt <= MaxAttempt
        THEN IF throttle_limit = 0 \/ a2.num_running < throttle_limit
             THEN LET rr == Gridengine_retry_failed(a2, i, r.sub) IN
                  IF ~rr.ret THEN [rr EXCEPT !.ret = TRUE]
                  ELSE [rr EXCEPT !.num_running = @ + 1]
             ELSE [a2 EXCEPT !.blocked = [a2.blocked EXCEPT ![i] = TRUE]]
        ELSE a2

\* One iteration of the for loop of check_running_jobs, for map item i.
Gridengine_check_item(st, i, r) ==
    LET polled == st.map[i].status \notin {"FINISHED", "FAILED", "PENDING"}
        s1 == IF ~polled THEN st.map[i].status
              ELSE IF r.poll = "comm" THEN "UNKNOWN"
              ELSE Gridengine_job_status_map(r.poll)
        waited == polled /\ s1 \in {"FINISHED", "FAILED"}
        s2 == IF waited /\ r.exit > 0 THEN "FAILED" ELSE s1
        a2 == [st EXCEPT
                 !.map = SetBoth(st.map, i, s2),
                 !.num_running = IF waited /\ @ > 0 THEN @ - 1 ELSE @,
                 !.job = [st.job EXCEPT ![i] = IF waited THEN "none" ELSE @]]
    IN  IF polled /\ ~st.map[i].id
        THEN [st EXCEPT !.crash = TRUE]
        ELSE IF s2 = "FAILED" /\ a2.map[i].attempt < MaxAttempt
        THEN IF throttle_limit = 0 \/ a2.num_running < throttle_limit
             THEN LET rr == Gridengine_retry_failed(a2, i, r.sub) IN
                  IF ~rr.ret THEN [rr EXCEPT !.ret = TRUE]
                  ELSE [rr EXCEPT !.num_running = @ + 1]
             ELSE [a2 EXCEPT !.blocked = [a2.blocked EXCEPT ![i] = TRUE]]
        ELSE a2

RECURSIVE Gridengine_check_running_jobs(_, _, _)
Gridengine_check_running_jobs(st, i, rs) ==
    IF i > Len(st.map) \/ st.crash THEN st
    ELSE Gridengine_check_running_jobs(
             Gridengine_check_item(st, i, rs[i]), i + 1, rs)

\* ----------------------------------------------------------------- local
Local_run_map(st, i, o) ==
    IF o = "fatal" THEN [st EXCEPT !.ret = FALSE]
    ELSE Submitted(st, i, "RUNNING")

RECURSIVE Local_run_loop(_, _, _)
Local_run_loop(st, i, out) ==
    IF i > Len(st.map) THEN st
    ELSE IF st.map[i].status = "PENDING"
    THEN LET r == Local_run_map(st, i, out[i]) IN
         IF ~r.ret
         THEN Local_run_loop(
                  [r EXCEPT !.map = SetBoth(r.map, i, "FAILED"), !.ret = TRUE],
                  i + 1, out)
         ELSE LET s2 == [r EXCEPT !.num_running = @ + 1] IN
              IF throttle_limit > 0 /\ s2.num_running >= throttle_limit
              THEN s2
              ELSE Local_run_loop(s2, i + 1, out)
    ELSE Local_run_loop(st, i + 1, out)

Local_run(st, out) ==
    IF throttle_limit > 0 /\ st.num_running >= throttle_limit
    THEN st
    ELSE Local_run_loop(st, 1, out)

\* Mutant of Local_check_item: a process that ended with a non-zero exit
\* code is spawned again as a new attempt.
Local_check_item_Retry(st, i, r) ==
    IF st.map[i].status \notin {"RUNNING", "UNKNOWN"} THEN st
    ELSE IF ~st.map[i].id THEN [st EXCEPT !.crash = TRUE]
    ELSE IF r.poll = "comm"
    THEN [st EXCEPT !.map = SetBoth(st.map, i, "UNKNOWN")]
    ELSE IF r.poll \notin {"DONE", "FAILED"}
    THEN [st EXCEPT !.map = SetRunStatus(st.map, i, st.map[i].status)]
    ELSE LET a2 == [st EXCEPT
                      !.map = SetBoth(st.map, i,
                                      IF r.exit > 0 THEN "FAILED"
                                      ELSE "FINISHED"),
                      !.num_running = IF @ > 0 THEN @ - 1 ELSE @,
                      !.job = [st.job EXCEPT ![i] = "none"]]
         IN  IF r.exit > 0
             THEN [Local_run_map(Appended(a2, i), i, r.sub) EXCEPT
                     !.ret = TRUE]
             ELSE a2

\* is_running(proc) raises (poll = "comm"), reports a live process, or the
\* process has ended with returncode r.exit.
Local_check_item(st, i, r) ==
    IF st.map[i].status \notin {"RUNNING", "UNKNOWN"} THEN st
    ELSE IF ~st.map[i].id THEN [st EXCEPT !.crash = TRUE]
    ELSE IF r.poll = "comm"
    THEN [st EXCEPT !.map = SetBoth(st.map, i, "UNKNOWN")]
    ELSE IF r.poll \notin {"DONE", "FAILED"}
    THEN [st EXCEPT !.map = SetRunStatus(st.map, i, st.map[i].status)]
    ELSE [st EXCEPT
            !.map = SetBoth(st.map, i,
                            IF r.exit > 0 THEN "FAILED" ELSE "FINISHED"),
            !.num_running = IF @ > 0 THEN @ - 1 ELSE @,
            !.job = [st.job EXCEPT ![i] = "none"]]

RECURSIVE Local_check_running_jobs(_, _, _)
Local_check_running_jobs(st, i, rs) ==
    IF i > Len(st.map) \/ st.crash THEN st
    ELSE Local_check_running_jobs(Local_check_item(st, i, rs[i]), i + 1, rs)

\* ----------------------------------------------------------------- slurm
Slurm_job_status_map(d) ==
    CASE d = "UNDETERMINED"        -> "UNKNOWN"
      [] d = "QUEUED_ACTIVE"       -> "PENDING"
      [] d = "SYSTEM_ON_HOLD"      -> "PENDING"
      [] d = "USER_ON_HOLD"        -> "PENDING"
      [] d = "USER_SYSTEM_ON_HOLD" -> "PENDING"
      [] d = "RUNNING"             -> "RUNNING"
      [] d = "SYSTEM_SUSPENDED"    -> "RUNNING"
      [] d = "USER_SUSPENDED"      -> "RUNNING"
      [] d = "DONE"                -> "FINISHED"
      [] OTHER                     -> "FAILED"

Slurm_run_map(st, i, o) ==
    CASE o = "fatal" -> [st EXCEPT !.ret = FALSE]
      [] o = "comm"  -> [st EXCEPT !.map = SetBoth(st.map, i, "FAILED"),
                                   !.ret = TRUE]
      [] OTHER       -> Submitted(st, i, "PENDING")

RECURSIVE Slurm_run(_, _, _)
Slurm_run(st, i, out) ==
    IF i > Len(st.map) THEN st
    ELSE LET r == Slurm_run_map(st, i, out[i]) IN
         IF ~r.ret THEN r ELSE Slurm_run(r, i + 1, out)

Slurm_retry_failed(st, i, o) == Slurm_run_map(Appended(st, i), i, o)

Slurm_check_item(st, i, r) ==
    LET polled == st.map[i].status \notin {"FINISHED", "FAILED"}
        s1 == IF ~polled THEN st.map[i].status
              ELSE IF r.poll = "comm" THEN "UNKNOWN"
              ELSE Slurm_job_status_map(r.poll)
        waited == polled /\ s1 \in {"FINISHED", "FAILED"}
        s2 == IF waited /\ r.exit > 0 THEN "FAILED" ELSE s1
        a2 == [st EXCEPT
                 !.map = SetBoth(st.map, i, s2),
                 !.job = [st.job EXCEPT ![i] = IF waited THEN "none" ELSE @]]
    IN  IF polled /\ ~st.map[i].id
        THEN [st EXCEPT !.crash = TRUE]
        ELSE IF s2 = "FAILED" /\ a2.map[i].attempt < MaxAttempt
        THEN [Slurm_retry_failed(a2, i, r.sub) EXCEPT !.ret = TRUE]
        ELSE a2

RECURSIVE Slurm_check_running_jobs(_, _, _)
Slurm_check_running_jobs(st, i, rs) ==
    IF i > Len(st.map) \/ st.crash THEN st
    ELSE Slurm_check_running_jobs(Slurm_check_item(st, i, rs[i]), i + 1, rs)

\* ----------------------------------------------------------------- agave
\* jobs_get_status: the status string of the job service, False on failure.
Agave_jobs_get_status(p) ==
    CASE p = "QUEUED_ACTIVE" -> "PENDING"
      [] p = "RUNNING"       -> "RUNNING"
      [] p = "DONE"          -> "FINISHED"
      [] p = "FAILED"        -> "FAILED"
      [] OTHER               -> "UNKNOWN"

Agave_run_map(st, i, o) ==
    IF o = "fatal" THEN [st EXCEPT !.ret = FALSE]
    ELSE Submitted(st, i, "PENDING")

RECURSIVE Agave_run(_, _, _)
Agave_run(st, i, out) ==
    IF i > Len(st.map) THEN st
    ELSE LET r == Agave_run_map(st, i, out[i]) IN
         IF ~r.ret THEN r ELSE Agave_run(r, i + 1, out)

Agave_retry_failed(st, i, o) == Agave_run_map(Appended(st, i), i, o)

\* r.hist: jobs_get_history failed ("fail"), lists no QUEUED entry naming a
\* local job ("nomatch"), or lists one ("match").
Agave_check_item(st, i, r) ==
    LET s == Agave_jobs_get_status(r.poll)
        a1 == [st EXCEPT !.map = SetBoth(st.map, i, s)]
        a2 == IF r.hist = "match"
              THEN [a1 EXCEPT !.map = [a1.map EXCEPT ![i].hpc = TRUE]]
              ELSE a1
    IN  IF ~st.map[i].id THEN [st EXCEPT !.crash = TRUE]
        ELSE IF st.map[i].hpc THEN a1
        ELSE IF r.hist = "fail" THEN a1
        ELSE IF s = "FAILED" /\ a2.map[i].attempt < MaxAttempt
        THEN [Agave_retry_failed(a2, i, r.sub) EXCEPT !.ret = TRUE]
        ELSE a2

RECURSIVE Agave_check_running_jobs(_, _, _)
Agave_check_running_jobs(st, i, rs) ==
    IF i > Len(st.map) \/ st.crash THEN st
    ELSE Agave_check_running_jobs(Agave_check_item(st, i, rs[i]), i + 1, rs)

\* -------------------------------------------------------------- dispatch
RunOutcomes ==
    CASE context = "local" -> {"ok", "fatal"}
      [] context = "agave" -> {"ok", "fatal"}
      [] OTHER             -> SubmitOutcomes

\* What one poll of a backend job can answer, with the outcome of the
\* resubmission that follows a failure.
CheckInputs ==
    {[poll |-> p, exit |-> 0, sub |-> "ok", hist |-> h] :
        p \in {"QUEUED_ACTIVE", "RUNNING", "UNDETERMINED", "comm", "DONE"},
        h \in IF context = "agave" THEN {"fail", "nomatch", "match"}
              ELSE {"nomatch"}}
    \cup {[poll |-> p, exit |-> IF p = "DONE" THEN 1 ELSE 0, sub |-> s,
           hist |-> h] :
        p \in IF context = "local" THEN {"DONE"}
              ELSE IF context = "agave" THEN {"FAILED"}
              ELSE {"DONE", "FAILED"},
        s \in RunOutcomes,
        h \in IF context = "agave" THEN {"fail", "nomatch", "match"}
              ELSE {"nomatch"}}

\* A poll answers done or failed exactly when the backend job has ended; an
\* item without a backend job is not polled and only the outcome of its
\* resubmission is read.
Consistent(j, r) ==
    \/ r.poll \in {"UNDETERMINED", "comm"}
    \/ j = "active" /\ r.poll \in {"QUEUED_ACTIVE", "RUNNING"}
    \/ j = "ended" /\ r.poll \in {"DONE", "FAILED"}
    \/ j = "none"

StepRun(st, out) ==
    CASE context = "local"      -> Local_run(st, out)
      [] context = "gridengine" -> Gridengine_run(st, out)
      [] context = "slurm"      -> Slurm_run(st, 1, out)
      [] OTHER                  -> Agave_run(st, 1, out)

StepCheck(st, rs) ==
    CASE context = "local"      -> Local_check_running_jobs(st, 1, rs)
      [] context = "gridengine" -> Gridengine_check_running_jobs(st, 1, rs)
      [] context = "slurm"      -> Slurm_check_running_jobs(st, 1, rs)
      [] OTHER                  -> Agave_check_running_jobs(st, 1, rs)

\* WorkflowStep.all_done: every map item is FINISHED or FAILED.
all_done(m) == \A i \in DOMAIN m : m[i].status \in {"FINISHED", "FAILED"}


\* ---------------------------------------------------------- workflow graph
Nodes == {"in", "a", "b"}
Inputs == {"in"}
Steps == Nodes \ Inputs

\* Workflow graphs: a chain, a fork, and a step that depends on nothing.
Dags ==
    {{<<"in", "a">>, <<"a", "b">>},
     {<<"in", "a">>, <<"in", "b">>},
     {<<"in", "a">>}}

NodesOf(s) == {s[k] : k \in DOMAIN s}
Pos(s, n) == CHOOSE k \in DOMAIN s : s[k] = n

\* WorkflowDAG.get_topological_sort: a linear extension of the graph.
get_topological_sort(g) ==
    {s \in [1..Cardinality(Nodes) -> Nodes] :
        /\ NodesOf(s) = Nodes
        /\ \A e \in g : Pos(s, e[1]) < Pos(s, e[2])}

\* node_name of the iteration the for loop is in
Node == order[idx]

\* ------------------------------------------------------ checkpoint, clean_up
Policies == {"all", "any", "none"}

Unread == [policy |-> "unread", ok |-> FALSE]

\* WorkflowStep.checkpoint: all -> every map item FINISHED, any -> at least
\* one, none -> always.
WorkflowStep_checkpoint(p, m) ==
    CASE p = "all" -> \A i \in DOMAIN m : m[i].status = "FINISHED"
      [] p = "any" -> \E i \in DOMAIN m : m[i].status = "FINISHED"
      [] OTHER     -> TRUE

\* AgaveStep.clean_up, for map items i..: run[attempt]['archive_uri'] is read
\* for every map item (KeyError when the record holds no job), then the
\* output and the logs are imported (imp[i]: the imports succeed or one fails).
RECURSIVE Agave_clean_up(_, _, _)
Agave_clean_up(m, i, imp) ==
    IF i > Len(m) THEN "ok"
    ELSE IF ~m[i].id THEN "raise"
    ELSE IF imp[i] = "fail" THEN "fail"
    ELSE Agave_clean_up(m, i + 1, imp)

ImportOutcomes == IF context = "agave" THEN {"ok", "fail"} ELSE {"ok"}

\* clean_up of the step: AgaveStep overrides it, the other executors inherit
\* WorkflowStep.clean_up.
StepCleanUp(m, imp) ==
    IF context = "agave" THEN Agave_clean_up(m, 1, imp) ELSE "ok"

\* ------------------------------------------------------------ status store
\* DataSource(...) raises ("exception"), update_job_status fails and the
\* transaction is rolled back ("rollback"), or every write is committed.
StoreOutcomes == {"ok", "exception", "rollback"}

\* requests.post to the first recipient returns a response or raises.
PostOutcomes == {"sent", "raise"}

StoreState ==
    [status |-> status, db |-> db, started |-> started,
     finished |-> finished, notified |-> notified, crash |-> FALSE]

\* Workflow._update_status_db(s, m); loaded: self._job is the job definition
\* (not None, False or empty), crash: an exception leaves the method.
Workflow_update_status_db(st, s, m, loaded, o, p) ==
    IF o = "exception" THEN st
    ELSE IF s # st.status /\ ~loaded THEN [st EXCEPT !.crash = TRUE]
    ELSE IF s # st.status /\ notifications /\ p = "raise"
    THEN [st EXCEPT !.crash = TRUE]
    ELSE LET n == IF s # st.status /\ notifications
                  THEN Append(st.notified, s) ELSE st.notified
         IN  IF o = "rollback"
             THEN [st EXCEPT !.status = s, !.notified = n]
             ELSE [st EXCEPT
                     !.status = s,
                     !.notified = n,
                     !.db = [status |-> s, msg |-> m],
                     !.started = IF s \in {"RUNNING", "ERROR"}
                                    /\ st.status = "PENDING"
                                 THEN @ + 1 ELSE @,
                     !.finished = IF s \in {"FINISHED", "ERROR"}
                                  THEN @ + 1 ELSE @]

Workflow_fatal(st, m, loaded, o, p) ==
    Workflow_update_status_db(st, "ERROR", m, loaded, o, p)

InstallStore(st) ==
    /\ status' = st.status
    /\ db' = st.db
    /\ started' = st.started
    /\ finished' = st.finished
    /\ notified' = st.notified

\* The steps of initialize() that return False.
InitFailures ==
    {"load_job", "validate_job", "load_workflow", "load_apps",
     "exec_context_set", "data_context_set", "job_uris",
     "workflow_contexts", "create_job_uris", "workflow_context_data", "dag"}

\* self._job holds a job definition once _load_job has read one.
JobLoaded(f) == f # "load_job"

\* ------------------------------------------- parts a specification leaves out
\* A local step without throttle limit.
ConfIdle ==
    /\ context = "local"
    /\ throttle_limit = 0

\* No step is being processed.
LoopIdle ==
    /\ map = <<>>
    /\ num_running = 0
    /\ job = <<>>
    /\ nsub = <<>>
    /\ blocked = <<>>

\* No graph is loaded and no node has been reached.
TravIdle ==
    /\ checkpoint = [s \in Steps |-> Unread]
    /\ dag = {}
    /\ order = <<"a">>
    /\ idx = 1
    /\ began = {}
    /\ done = {}
    /\ finaled = {}

CoreIdle == ConfIdle /\ LoopIdle /\ TravIdle

\* The status store holds the job as imported.
StoreIdle ==
    /\ msg = ""
    /\ status = "PENDING"
    /\ db = [status |-> "PENDING", msg |-> ""]
    /\ started = 0
    /\ finished = 0
    /\ notified = <<>>
    /\ notifications = FALSE

\* The job has no notifications configured.
NtIdle ==
    /\ endpoints = <<>>
    /\ posts = <<>>
    /\ warnings = 0

\* The run command is not modelled: one job, already imported.
CliIdle ==
    /\ graph = {}
    /\ jobs = <<"running">>
    /\ effects = {"workflow_record", "job_record"}
    /\ lpc = "pool"
    /\ ret = [kind |-> "none", val |-> <<>>]

\* The backend contexts are not modelled.
CtxIdle ==
    /\ stepctx = <<>>
    /\ session = <<>>
    /\ inited = {}
    /\ made = {}
    /\ handle = <<>>
    /\ submitted = 0
    /\ polling = {}

\* No single poll or job name is followed.
FnIdle ==
    /\ fn_in = <<>>
    /\ fn_out = <<>>

ExtIdle == NtIdle /\ CliIdle /\ CtxIdle /\ FnIdle

\* ----------------------------------------------------------------- actions
Install(st) ==
    /\ map' = st.map
    /\ num_running' = st.num_running
    /\ job' = st.job
    /\ nsub' = st.nsub
    /\ blocked' = st.blocked

\* A step node of a running job, before its iterate_map_uri().
Init ==
    /\ context \in Contexts
    /\ throttle_limit \in 0..MaxThrottle
    /\ map = <<>>
    /\ num_running = 0
    /\ job = <<>>
    /\ pc = "iterate"
    /\ nsub = <<>>
    /\ blocked = <<>>
    /\ checkpoint = [s \in Steps |-> Unread]
    /\ msg = ""
    /\ status = "RUNNING"
    /\ db = [status |-> "RUNNING", msg |-> ""]
    /\ started = 1
    /\ finished = 0
    /\ notified = <<>>
    /\ notifications = FALSE
    /\ dag = {}
    /\ order = <<"a">>
    /\ idx = 1
    /\ began = {"a"}
    /\ done = {}
    /\ finaled = {}
    /\ ExtIdle

\* if not node['node'].iterate_map_uri(): return self._fatal(msg)
IterateMapUri ==
    /\ pc = "iterate"
    /\ \/ /\ \E n \in 1..MaxItems :
               /\ map' = [i \in 1..n |-> NewMapItem]
               /\ job' = [i \in 1..n |-> "none"]
               /\ nsub' = [i \in 1..n |-> 0]
               /\ blocked' = [i \in 1..n |-> FALSE]
          /\ num_running' = 0
          /\ pc' = "loop"
          /\ msg' = msg
       \/ /\ pc' = "fatal"
          /\ msg' = "iterate_map_uri"
          /\ UNCHANGED loopVars
    /\ UNCHANGED <<extVars, confVars, checkpoint, storeVars, jobVars,
                   travVars>>

\* Mutant of LoopTest: the loop ends as soon as one map item has settled.
LoopTest_ExitEarly ==
    /\ pc = "loop"
    /\ pc' = IF \E i \in Items : map[i].status \in {"FINISHED", "FAILED"}
             THEN "done" ELSE "run"
    /\ UNCHANGED <<extVars, confVars, loopVars, checkpoint, msg, storeVars,
                   jobVars,
                   travVars>>

\* while not node['node'].all_done():
LoopTest ==
    /\ pc = "loop"
    /\ pc' = IF all_done(map) THEN "done" ELSE "run"
    /\ UNCHANGED <<extVars, confVars, loopVars, checkpoint, msg, storeVars,
                   jobVars,
                   travVars>>

\* if not node['node'].run(): return self._fatal(msg)
Run ==
    /\ pc = "run"
    /\ \E out \in [Items -> RunOutcomes] :
         LET st == StepRun(StepState, out) IN
         /\ Install(st)
         /\ pc' = IF st.ret THEN "check" ELSE "fatal"
         /\ msg' = IF st.ret THEN msg ELSE "run"
    /\ UNCHANGED <<extVars, confVars, checkpoint, storeVars, jobVars,
                   travVars>>

\* node['node'].check_running_jobs(); time.sleep(run_poll_delay)
CheckRunningJobs ==
    /\ pc = "check"
    /\ \E rs \in [Items -> CheckInputs] :
         /\ \A i \in Items : Consistent(job[i], rs[i])
         /\ LET st == StepCheck(StepState, rs) IN
            /\ Install(st)
            /\ pc' = IF st.crash THEN "crash" ELSE "loop"
    /\ UNCHANGED <<extVars, confVars, checkpoint, msg, storeVars, jobVars,
                   travVars>>

\* The backend job of map item i runs to its end.
JobProgress(i) ==
    /\ job[i] = "active"
    /\ job' = [job EXCEPT ![i] = "ended"]
    /\ UNCHANGED <<extVars, confVars, map, num_running, nsub, blocked, pc,
                   checkpoint,
                   msg, storeVars, jobVars, travVars>>

\* Mutant of Checkpoint: a failed checkpoint does not end the run.
Checkpoint_NoAbort ==
    /\ pc = "done"
    /\ \E p \in Policies :
         checkpoint' = [checkpoint EXCEPT
                          ![Node] = [policy |-> p,
                                     ok |-> WorkflowStep_checkpoint(p, map)]]
    /\ pc' = "clean_up"
    /\ UNCHANGED <<extVars, confVars, loopVars, msg, storeVars, jobVars,
                   travVars>>

\* Mutant of Checkpoint: a failed checkpoint ends the run only when a node
\* of the graph depends on the step.
Checkpoint_NoAbortOnLast ==
    /\ pc = "done"
    /\ \E p \in Policies :
         LET ok == WorkflowStep_checkpoint(p, map)
             go == ok \/ ~(\E n \in Nodes : <<Node, n>> \in dag)
         IN  /\ checkpoint' = [checkpoint EXCEPT
                                 ![Node] = [policy |-> p, ok |-> ok]]
             /\ pc' = IF go THEN "clean_up" ELSE "fatal"
             /\ msg' = IF go THEN msg ELSE "checkpoint"
    /\ UNCHANGED <<extVars, confVars, loopVars, storeVars, jobVars, travVars>>

\* if not node['node'].checkpoint(): return self._fatal(msg)
Checkpoint ==
    /\ pc = "done"
    /\ \E p \in Policies :
         LET ok == WorkflowStep_checkpoint(p, map) IN
         /\ checkpoint' = [checkpoint EXCEPT
                             ![Node] = [policy |-> p, ok |-> ok]]
         /\ pc' = IF ok THEN "clean_up" ELSE "fatal"
         /\ msg' = IF ok THEN msg ELSE "checkpoint"
    /\ UNCHANGED <<extVars, confVars, loopVars, storeVars, jobVars, travVars>>

\* if not node['node'].clean_up(): return self._fatal(msg)
CleanUp ==
    /\ pc = "clean_up"
    /\ \E imp \in [Items -> ImportOutcomes] :
         LET r == StepCleanUp(map, imp) IN
         /\ pc' = CASE r = "ok"   -> "stage"
                    [] r = "fail" -> "fatal"
                    [] OTHER      -> "crash"
         /\ msg' = IF r = "fail" THEN "clean_up" ELSE msg
    /\ UNCHANGED <<extVars, confVars, loopVars, checkpoint, storeVars, jobVars,
                   travVars>>

\* Mutant of Stage: a step whose staging failed counts as processed.
Stage_IgnoreFailure ==
    /\ pc = "stage"
    /\ \E ok \in BOOLEAN :
         /\ done' = IF ok THEN done \cup {Node} ELSE done
         /\ idx' = idx + 1
         /\ pc' = "node"
    /\ UNCHANGED <<extVars, confVars, loopVars, checkpoint, msg, storeVars,
                   jobVars,
                   began, finaled>>

\* if not node['node'].stage(...): return self._fatal(msg)
Stage ==
    /\ pc = "stage"
    /\ \E ok \in BOOLEAN :
         /\ done' = IF ok THEN done \cup {Node} ELSE done
         /\ idx' = IF ok THEN idx + 1 ELSE idx
         /\ pc' = IF ok THEN "node" ELSE "fatal"
         /\ msg' = IF ok THEN msg ELSE "stage"
    /\ UNCHANGED <<extVars, confVars, loopVars, checkpoint, storeVars,
                   jobVars, began,
                   finaled>>

Next ==
    \/ IterateMapUri
    \/ LoopTest
    \/ Run
    \/ CheckRunningJobs
    \/ \E i \in Items : JobProgress(i)
    \/ Checkpoint
    \/ CleanUp
    \/ Stage

\* One step node of a running job, from iterate_map_uri() to stage().
Spec == Init /\ [][Next]_vars

\* ------------------------------------------------- the runtime of one job
WfContexts == {"local"}

\* A job of a workflow of one input and two local steps, after Workflow().
WfInit ==
    /\ context \in WfContexts
    /\ throttle_limit \in 0..MaxThrottle
    /\ map = <<>>
    /\ num_running = 0
    /\ job = <<>>
    /\ pc = "initialize"
    /\ nsub = <<>>
    /\ blocked = <<>>
    /\ checkpoint = [s \in Steps |-> Unread]
    /\ msg = ""
    /\ status = "PENDING"
    /\ db = [status |-> "PENDING", msg |-> ""]
    /\ started = 0
    /\ finished = 0
    /\ notified = <<>>
    /\ notifications \in BOOLEAN
    /\ dag \in Dags
    /\ order \in get_topological_sort(dag)
    /\ idx = 1
    /\ began = {}
    /\ done = {}
    /\ finaled = {}
    /\ ExtIdle

\* Workflow.initialize(): every step that fails has called _fatal itself
\* before initialize() calls _fatal again.
Initialize ==
    /\ pc = "initialize"
    /\ \/ /\ pc' = "start"
          /\ UNCHANGED <<msg, storeVars>>
       \/ \E f \in InitFailures, o1, o2 \in StoreOutcomes,
             p1, p2 \in PostOutcomes :
            LET s1 == Workflow_fatal(StoreState, f, JobLoaded(f), o1, p1)
                s2 == IF s1.crash THEN s1
                      ELSE Workflow_fatal(s1, f, JobLoaded(f), o2, p2)
            IN  /\ InstallStore(s2)
                /\ msg' = f
                /\ pc' = IF s2.crash THEN "crash" ELSE "init_failed"
    /\ UNCHANGED <<extVars, confVars, loopVars, checkpoint, jobVars, travVars>>

\* Workflow.run(): self._update_status_db('RUNNING', '')
RunStart ==
    /\ pc = "start"
    /\ \E o \in StoreOutcomes, p \in PostOutcomes :
         LET st == Workflow_update_status_db(StoreState, "RUNNING", "", TRUE,
                                             o, p)
         IN  /\ InstallStore(st)
             /\ pc' = IF st.crash THEN "crash" ELSE "node"
    /\ UNCHANGED <<extVars, confVars, loopVars, checkpoint, msg, jobVars,
                   travVars>>

\* for node_name in self._dag.get_topological_sort(): the next node, a step
\* with its own empty map and counter, or the end of the loop.
NextNode ==
    /\ pc = "node"
    /\ IF idx > Len(order)
       THEN /\ pc' = "final"
            /\ idx' = 1
            /\ UNCHANGED <<loopVars, began>>
       ELSE /\ pc' = IF Node \in Inputs THEN "stage_input" ELSE "iterate"
            /\ began' = began \cup {Node}
            /\ map' = <<>>
            /\ num_running' = 0
            /\ job' = <<>>
            /\ nsub' = <<>>
            /\ blocked' = <<>>
            /\ idx' = idx
    /\ UNCHANGED <<extVars, confVars, checkpoint, msg, storeVars, jobVars,
                   done,
                   finaled>>

\* Mutant of StageInput: an input whose staging failed is skipped.
StageInput_IgnoreFailure ==
    /\ pc = "stage_input"
    /\ \E ok \in BOOLEAN :
         /\ done' = IF ok THEN done \cup {Node} ELSE done
         /\ idx' = idx + 1
         /\ pc' = "node"
    /\ UNCHANGED <<extVars, confVars, loopVars, checkpoint, msg, storeVars,
                   jobVars,
                   began, finaled>>

\* if not node['node'].stage(move_final=False, ...): return self._fatal(msg)
StageInput ==
    /\ pc = "stage_input"
    /\ \E ok \in BOOLEAN :
         /\ done' = IF ok THEN done \cup {Node} ELSE done
         /\ idx' = IF ok THEN idx + 1 ELSE idx
         /\ pc' = IF ok THEN "node" ELSE "fatal"
         /\ msg' = IF ok THEN msg ELSE "stage_input"
    /\ UNCHANGED <<extVars, confVars, loopVars, checkpoint, storeVars,
                   jobVars, began,
                   finaled>>

\* second for loop: if node['type'] == 'step': stage_final(...)
StageFinal ==
    /\ pc = "final"
    /\ idx <= Len(order)
    /\ IF Node \in Inputs
       THEN /\ idx' = idx + 1
            /\ UNCHANGED <<pc, msg, finaled>>
       ELSE \E ok \in BOOLEAN :
              /\ finaled' = IF ok THEN finaled \cup {Node} ELSE finaled
              /\ idx' = IF ok THEN idx + 1 ELSE idx
              /\ pc' = IF ok THEN "final" ELSE "fatal"
              /\ msg' = IF ok THEN msg ELSE "stage_final"
    /\ UNCHANGED <<extVars, confVars, loopVars, checkpoint, storeVars,
                   jobVars, began,
                   done>>

\* self._update_status_db('FINISHED', ''); return True
Finish ==
    /\ pc = "final"
    /\ idx > Len(order)
    /\ \E o \in StoreOutcomes, p \in PostOutcomes :
         LET st == Workflow_update_status_db(StoreState, "FINISHED", "", TRUE,
                                             o, p)
         IN  /\ InstallStore(st)
             /\ pc' = IF st.crash THEN "crash" ELSE "finished"
    /\ UNCHANGED <<extVars, confVars, loopVars, checkpoint, msg, jobVars,
                   travVars>>

\* return self._fatal(msg) in Workflow.run()
Fatal ==
    /\ pc = "fatal"
    /\ \E o \in StoreOutcomes, p \in PostOutcomes :
         LET st == Workflow_fatal(StoreState, msg, TRUE, o, p) IN
         /\ InstallStore(st)
         /\ pc' = IF st.crash THEN "crash" ELSE "run_failed"
    /\ UNCHANGED <<extVars, confVars, loopVars, checkpoint, msg, jobVars,
                   travVars>>

WfNext ==
    \/ Initialize
    \/ RunStart
    \/ NextNode
    \/ StageInput
    \/ Next
    \/ StageFinal
    \/ Finish
    \/ Fatal

\* One runtime instance: initialize() followed, when it succeeds, by run().
WfSpec == WfInit /\ [][WfNext]_vars

\* ------------------------------------------------------------- notifier
\* job['notifications'] holds at most MaxEndpoints endpoints with 1..MaxTo
\* recipients each; endpoints[e] is the number of recipients of endpoint e.
EndpointLists ==
    UNION {[1..n -> 1..MaxTo] : n \in 0..MaxEndpoints}

\* requests.post: a 201 response, another response, or RequestException.
PostResults == {"201", "other", "raise"}

RECURSIVE Recipients(_, _)
\* The (endpoint, recipient) pairs in the order of the two for loops of
\* _send_notifications, from endpoint e on.
Recipients(eps, e) ==
    IF e > Len(eps) THEN <<>>
    ELSE [r \in 1..eps[e] |-> <<e, r>>] \o Recipients(eps, e + 1)

RECURSIVE Workflow_send_notifications(_, _, _, _, _)
\* Workflow._send_notifications(s) from the k-th recipient on, outs[k] being
\* the result of the k-th requests.post.  acc.response is the local variable
\* response ("unbound" until a post has returned), acc.posts the requests
\* made, acc.warnings the warnings logged, acc.raised an UnboundLocalError
\* at response.status_code.
Workflow_send_notifications(rs, s, outs, k, acc) ==
    IF k > Len(rs) \/ acc.raised THEN acc
    ELSE LET sent == Append(acc.posts, <<s, rs[k][1], rs[k][2]>>)
             resp == IF outs[k] = "raise" THEN acc.response ELSE outs[k]
             w1 == IF outs[k] = "raise" THEN acc.warnings + 1
                   ELSE acc.warnings
         IN  Workflow_send_notifications(rs, s, outs, k + 1,
                 [posts |-> sent,
                  response |-> resp,
                  warnings |-> IF resp = "other" THEN w1 + 1 ELSE w1,
                  raised |-> resp = "unbound"])

NoResponse ==
    [posts |-> <<>>, response |-> "unbound", warnings |-> 0, raised |-> FALSE]

\* One call of _update_status_db(s, m) with the store outcome o and the post
\* results outs: the notification is made when the status changes and the
\* data source was opened, before the status is written.
NotifiedUpdate(st, s, m, loaded, o, outs) ==
    LET rs == Recipients(endpoints, 1)
        reached == o # "exception" /\ s # st.status /\ loaded
        sent == IF reached
                THEN Workflow_send_notifications(rs, s, outs, 1, NoResponse)
                ELSE NoResponse
        up == Workflow_update_status_db(
                  [status |-> st.status, db |-> st.db,
                   started |-> st.started, finished |-> st.finished,
                   notified |-> st.notified, crash |-> FALSE],
                  s, m, loaded, o,
                  IF sent.raised THEN "raise" ELSE "sent")
    IN  [status |-> up.status, db |-> up.db, started |-> up.started,
         finished |-> up.finished, notified |-> up.notified,
         crash |-> up.crash,
         posts |-> st.posts \o sent.posts,
         warnings |-> st.warnings + sent.warnings]

NtState ==
    [status |-> status, db |-> db, started |-> started,
     finished |-> finished, notified |-> notified, crash |-> FALSE,
     posts |-> posts, warnings |-> warnings]

InstallNt(st) ==
    /\ InstallStore(st)
    /\ posts' = st.posts
    /\ warnings' = st.warnings

PostInputs == [1..Len(Recipients(endpoints, 1)) -> PostResults]

NtInit ==
    /\ CoreIdle
    /\ pc = "initialize"
    /\ status = "PENDING"
    /\ db = [status |-> "PENDING", msg |-> ""]
    /\ started = 0
    /\ finished = 0
    /\ notified = <<>>
    /\ msg = ""
    /\ endpoints \in EndpointLists
    /\ notifications = (endpoints # <<>>)
    /\ posts = <<>>
    /\ warnings = 0
    /\ CliIdle /\ CtxIdle /\ FnIdle

\* Workflow.initialize(): success, or a failing step followed by the two
\* _fatal calls.
NtInitialize ==
    /\ pc = "initialize"
    /\ \/ /\ pc' = "start"
          /\ UNCHANGED <<msg, storeVars, posts, warnings>>
       \/ \E f \in InitFailures, o1, o2 \in StoreOutcomes,
             outs1, outs2 \in PostInputs :
            LET s1 == NotifiedUpdate(NtState, "ERROR", f, JobLoaded(f), o1,
                                     outs1)
                s2 == IF s1.crash THEN s1
                      ELSE NotifiedUpdate(s1, "ERROR", f, JobLoaded(f), o2,
                                          outs2)
            IN  /\ InstallNt(s2)
                /\ msg' = f
                /\ pc' = IF s2.crash THEN "crash" ELSE "init_failed"
    /\ UNCHANGED <<confVars, loopVars, checkpoint, jobVars, travVars,
                   endpoints, cliVars, ctxVars, fnVars>>

\* Workflow.run(): self._update_status_db('RUNNING', '')
NtRunStart ==
    /\ pc = "start"
    /\ \E o \in StoreOutcomes, outs \in PostInputs :
         LET st == NotifiedUpdate(NtState, "RUNNING", "", TRUE, o, outs) IN
         /\ InstallNt(st)
         /\ pc' = IF st.crash THEN "crash" ELSE "nodes"
    /\ UNCHANGED <<confVars, loopVars, checkpoint, msg, jobVars, travVars,
                   endpoints, cliVars, ctxVars, fnVars>>

\* Workflow.run(): a node failed, return self._fatal(msg)
NtFatal ==
    /\ pc = "nodes"
    /\ \E o \in StoreOutcomes, outs \in PostInputs :
         LET st == NotifiedUpdate(NtState, "ERROR", "node", TRUE, o, outs) IN
         /\ InstallNt(st)
         /\ msg' = "node"
         /\ pc' = IF st.crash THEN "crash" ELSE "run_failed"
    /\ UNCHANGED <<confVars, loopVars, checkpoint, jobVars, travVars,
                   endpoints, cliVars, ctxVars, fnVars>>

\* Workflow.run(): every node done, self._update_status_db('FINISHED', '')
NtFinish ==
    /\ pc = "nodes"
    /\ \E o \in StoreOutcomes, outs \in PostInputs :
         LET st == NotifiedUpdate(NtState, "FINISHED", "", TRUE, o, outs) IN
         /\ InstallNt(st)
         /\ pc' = IF st.crash THEN "crash" ELSE "finished"
    /\ UNCHANGED <<confVars, loopVars, checkpoint, msg, jobVars, travVars,
                   endpoints, cliVars, ctxVars, fnVars>>

NtNext ==
    \/ NtInitialize
    \/ NtRunStart
    \/ NtFatal
    \/ NtFinish

\* The status updates of one runtime instance with their notifications.
NtSpec == NtInit /\ [][NtNext]_vars

\* ------------------------------------------------------ backend contexts
\* Contexts that hold a DRMAA session.
Drmaa == {"gridengine", "slurm"}

\* Contexts.get_data_scheme_of_exec_context
DataScheme(c) == IF c = "agave" THEN "agave" ELSE "local"

\* self._exec_contexts | self._data_contexts of a job whose steps run in the
\* contexts sc.
WorkflowContexts(sc) ==
    {sc[s] : s \in DOMAIN sc} \cup {DataScheme(sc[s]) : s \in DOMAIN sc}

NoSession == [state |-> "absent", opens |-> 0, exits |-> 0]

\* SlurmWorkflow.__init__ and initialize(): drmaa.Session() followed by
\* session.initialize(), which opens the session or raises DrmaaException.
Slurm_initialize(ok) ==
    IF ok THEN [state |-> "open", opens |-> 1, exits |-> 0]
    ELSE [state |-> "created", opens |-> 0, exits |-> 0]

\* Mutant of Slurm_del: the session is left open.
Slurm_del_NoExit(ss) == ss

\* SlurmWorkflow.__del__: session.exit(); the DrmaaException of a session
\* that is not open is caught.
Slurm_del(ss) ==
    IF ss.state = "open"
    THEN [ss EXCEPT !.state = "exited", !.exits = @ + 1]
    ELSE ss

\* The steps of initialize() before _init_workflow_contexts.
EarlyFailures ==
    {"load_job", "validate_job", "load_workflow", "load_apps",
     "exec_context_set", "data_context_set", "job_uris"}

CtxInit ==
    /\ CoreIdle /\ StoreIdle /\ pc = "initialize"
    /\ NtIdle /\ CliIdle /\ FnIdle
    /\ stepctx \in [Steps -> Contexts]
    /\ session = [c \in Drmaa |-> NoSession]
    /\ inited = {}
    /\ made = {}
    /\ handle = [s \in Steps |-> 0]
    /\ submitted = 0
    /\ polling = {}

CtxFrame ==
    UNCHANGED <<confVars, loopVars, checkpoint, jobVars, travVars, ntVars,
                cliVars, fnVars, stepctx>>

\* return self._fatal(msg) in a step of initialize() and again in
\* initialize() itself, with a store that accepts the writes.
CtxFatal(f, to) ==
    LET s1 == Workflow_fatal(StoreState, f, JobLoaded(f), "ok", "sent")
        s2 == IF s1.crash THEN s1
              ELSE Workflow_fatal(s1, f, JobLoaded(f), "ok", "sent")
    IN  /\ InstallStore(s2)
        /\ msg' = f
        /\ pc' = IF s2.crash THEN "crash" ELSE to

\* initialize(): _load_job ... _init_job_uris
CtxLoad ==
    /\ pc = "initialize"
    /\ \/ /\ pc' = "contexts"
          /\ UNCHANGED <<msg, storeVars>>
       \/ \E f \in EarlyFailures : CtxFatal(f, "init_failed")
    /\ UNCHANGED <<session, inited, made, handle, submitted, polling>>
    /\ CtxFrame

\* Mutant of InitContext: a context that failed to initialize is skipped.
InitContext_IgnoreFailure(c) ==
    /\ pc = "contexts"
    /\ c \in WorkflowContexts(stepctx) \ inited
    /\ \E ok \in BOOLEAN :
         /\ session' = IF c \in Drmaa
                       THEN [session EXCEPT ![c] = Slurm_initialize(ok)]
                       ELSE session
         /\ inited' = inited \cup {c}
         /\ pc' = IF inited' = WorkflowContexts(stepctx)
                  THEN "create_job_uris" ELSE "contexts"
         /\ UNCHANGED <<msg, storeVars>>
    /\ UNCHANGED <<made, handle, submitted, polling>>
    /\ CtxFrame

\* _init_workflow_contexts, one pass of the loop: the class of the context
\* is instantiated and its initialize() is called.
InitContext(c) ==
    /\ pc = "contexts"
    /\ c \in WorkflowContexts(stepctx) \ inited
    /\ \E ok \in BOOLEAN :
         /\ session' = IF c \in Drmaa
                       THEN [session EXCEPT ![c] = Slurm_initialize(ok)]
                       ELSE session
         /\ IF ok
            THEN /\ inited' = inited \cup {c}
                 /\ pc' = IF inited' = WorkflowContexts(stepctx)
                          THEN "create_job_uris" ELSE "contexts"
                 /\ UNCHANGED <<msg, storeVars>>
            ELSE /\ CtxFatal("workflow_contexts", "init_failed")
                 /\ inited' = inited
    /\ UNCHANGED <<made, handle, submitted, polling>>
    /\ CtxFrame

\* _create_job_uris: DataManager.mkdir of the work URIs, then of the output
\* URI.
CreateJobUris ==
    /\ pc = "create_job_uris"
    /\ \/ /\ made' = made \cup {"work_dir", "output_dir"}
          /\ pc' = "workflow_context_data"
          /\ UNCHANGED <<msg, storeVars>>
       \/ /\ \E d \in {{}, {"work_dir"}} : made' = made \cup d
          /\ CtxFatal("create_job_uris", "init_failed")
    /\ UNCHANGED <<session, inited, handle, submitted, polling>>
    /\ CtxFrame

\* _init_workflow_context_data: init_data() of every context
InitContextData ==
    /\ pc = "workflow_context_data"
    /\ \/ /\ pc' = "dag"
          /\ UNCHANGED <<msg, storeVars>>
       \/ CtxFatal("workflow_context_data", "init_failed")
    /\ UNCHANGED <<session, inited, made, handle, submitted, polling>>
    /\ CtxFrame

\* _init_dag: WorkflowDAG(..., **{context: get_context_options()}) hands the
\* session of each context to the steps that use it.
InitDag ==
    /\ pc = "dag"
    /\ \/ /\ made' = made \cup {"dag"}
          /\ handle' = [s \in Steps |->
                          IF stepctx[s] \in Drmaa
                          THEN session[stepctx[s]].opens ELSE 0]
          /\ pc' = "start"
          /\ UNCHANGED <<msg, storeVars>>
       \/ /\ CtxFatal("dag", "init_failed")
          /\ UNCHANGED <<made, handle>>
    /\ UNCHANGED <<session, inited, submitted, polling>>
    /\ CtxFrame

\* Workflow.run(): self._update_status_db('RUNNING', '')
CtxRunStart ==
    /\ pc = "start"
    /\ InstallStore(Workflow_update_status_db(StoreState, "RUNNING", "",
                                              TRUE, "ok", "sent"))
    /\ pc' = "nodes"
    /\ UNCHANGED <<msg, session, inited, made, handle, submitted, polling>>
    /\ CtxFrame

\* A step node is reached: its jobs are submitted through the handle it
\* holds and polled.
StepBegin(s) ==
    /\ pc = "nodes"
    /\ polling = {}
    /\ s \in Steps \ done
    /\ \A t \in Steps : Pos(<<"a", "b">>, t) < Pos(<<"a", "b">>, s)
                          => t \in done
    /\ polling' = {s}
    /\ submitted' = Min(submitted + 1, MaxSub)
    /\ UNCHANGED <<pc, msg, storeVars, session, inited, made, handle>>
    /\ UNCHANGED <<confVars, loopVars, checkpoint, jobVars, travVars, ntVars,
                   cliVars, fnVars, stepctx>>

\* The step's jobs have settled: the step is staged, or run() returns
\* through _fatal.
StepEnd(s) ==
    /\ pc = "nodes"
    /\ polling = {s}
    /\ polling' = {}
    /\ \/ /\ done' = done \cup {s}
          /\ UNCHANGED <<pc, msg, storeVars>>
       \/ /\ CtxFatal("node", "run_failed")
          /\ done' = done
    /\ UNCHANGED <<session, inited, made, handle, submitted>>
    /\ UNCHANGED <<confVars, loopVars, checkpoint, jobVars, idx, began,
                   finaled, ntVars, cliVars, fnVars, stepctx>>

\* Workflow.run(): every node done, self._update_status_db('FINISHED', '')
CtxFinish ==
    /\ pc = "nodes"
    /\ done = Steps
    /\ InstallStore(Workflow_update_status_db(StoreState, "FINISHED", "",
                                              TRUE, "ok", "sent"))
    /\ pc' = "finished"
    /\ UNCHANGED <<msg, session, inited, made, handle, submitted, polling>>
    /\ CtxFrame

\* initialize() or run() has returned or raised and the Workflow instance is
\* released: __del__ of every context object it holds.
Release ==
    /\ pc \in {"init_failed", "run_failed", "finished", "crash"}
    /\ pc' = "released"
    /\ session' = [c \in Drmaa |-> Slurm_del(session[c])]
    /\ UNCHANGED <<msg, storeVars, inited, made, handle, submitted, polling>>
    /\ CtxFrame

CtxNext ==
    \/ CtxLoad
    \/ \E c \in Contexts : InitContext(c)
    \/ CreateJobUris
    \/ InitContextData
    \/ InitDag
    \/ CtxRunStart
    \/ \E s \in Steps : StepBegin(s)
    \/ \E s \in Steps : StepEnd(s)
    \/ CtxFinish
    \/ Release

\* One runtime instance and the backend contexts it holds.
CtxSpec == CtxInit /\ [][CtxNext]_vars

\* ------------------------------------------------------------- launcher
\* Pool(min(5, len(job_ids)))
PoolMax == 5

PoolSize_NoCap(n) == n

PoolSize(n) == Min(PoolMax, n)

\* Workflow definitions handed to the launcher: the graphs of Dags and one
\* whose steps depend on each other.
Graphs == Dags \cup {{<<"in", "a">>, <<"a", "b">>, <<"b", "a">>}}

\* WorkflowDAG.initialize() rejects a graph that has no topological order.
HasCycle(g) == get_topological_sort(g) = {}

\* The steps of Workflow.initialize() in the order they are called.
InitOrder ==
    <<"load_job", "validate_job", "load_workflow", "load_apps",
      "exec_context_set", "data_context_set", "job_uris",
      "workflow_contexts", "create_job_uris", "workflow_context_data",
      "dag">>

\* What initialize() has done when step f fails ("none": no step fails):
\* the backend contexts are initialized by _init_workflow_contexts, the
\* work and output directories are made by _create_job_uris.
InitEffects(f) ==
    LET after(g) == f = "none" \/ Pos(InitOrder, f) > Pos(InitOrder, g) IN
    (IF after("workflow_contexts") THEN {"context"} ELSE {})
        \cup (IF after("create_job_uris") THEN {"work_dir", "output_dir"}
              ELSE {})

\* What one runtime instance returns to the pool: initialize() fails at
\* step f or an exception leaves it, or run() is called and returns o.
RunOutcomes_job == {"ok", "failed", "raised"}

run_workflow(g, f, o) ==
    IF f = "dag" /\ HasCycle(g) THEN "rejected"
    ELSE IF f # "none" THEN (IF o = "raised" THEN "raised" ELSE "failed")
    ELSE o

\* The value of run(): False, the list pool.map returned, or the exception
\* pool.map re-raises.
ReturnFalse == [kind |-> "bool", val |-> <<FALSE>>]

ReturnList(js) ==
    IF \E j \in DOMAIN js : js[j] = "raised"
    THEN [kind |-> "raise", val |-> <<>>]
    ELSE [kind |-> "list", val |-> [j \in DOMAIN js |-> js[j] = "ok"]]

\* bool(value): a list is true when it is not empty.
Truthy(r) ==
    IF r.kind = "bool" THEN r.val[1] ELSE Len(r.val) > 0

\* The process exit code: 1 after an uncaught exception or a false value.
ExitCode(r) ==
    IF r.kind = "raise" THEN 1 ELSE IF Truthy(r) THEN 0 ELSE 1

JobsDone == {"ok", "failed", "rejected", "raised"}

Running == {j \in DOMAIN jobs : jobs[j] = "running"}

CliInit ==
    /\ CoreIdle /\ StoreIdle /\ pc = "cli"
    /\ NtIdle /\ CtxIdle /\ FnIdle
    /\ graph \in Graphs
    /\ jobs \in UNION {[1..n -> {"new"}] : n \in 1..MaxJobs}
    /\ effects = {}
    /\ lpc = "load"
    /\ ret = [kind |-> "none", val |-> <<>>]

CliFrame ==
    UNCHANGED <<confVars, loopVars, pc, checkpoint, msg, storeVars, jobVars,
                travVars, ntVars, ctxVars, fnVars>>

\* defs = data_source.import_definition(workflow_path); commit
LoadDefinition ==
    /\ lpc = "load"
    /\ \E ok \in BOOLEAN :
         IF ok
         THEN /\ effects' = effects \cup {"workflow_record"}
              /\ lpc' = "jobs"
              /\ ret' = ret
         ELSE /\ lpc' = "returned"
              /\ ret' = ReturnFalse
              /\ effects' = effects
    /\ UNCHANGED <<graph, jobs>>
    /\ CliFrame

\* URI checks of the job definitions, import_jobs_from_dict, commit
ImportJobs ==
    /\ lpc = "jobs"
    /\ \E ok \in BOOLEAN :
         IF ok
         THEN /\ effects' = effects \cup {"job_record"}
              /\ jobs' = [j \in DOMAIN jobs |-> "queued"]
              /\ lpc' = "pool"
              /\ ret' = ret
         ELSE /\ lpc' = "returned"
              /\ ret' = ReturnFalse
              /\ UNCHANGED <<effects, jobs>>
    /\ UNCHANGED graph
    /\ CliFrame

\* A free worker of the pool takes the next job.
StartJob(j) ==
    /\ lpc = "pool"
    /\ jobs[j] = "queued"
    /\ Cardinality(Running) < PoolSize(Len(jobs))
    /\ jobs' = [jobs EXCEPT ![j] = "running"]
    /\ UNCHANGED <<graph, effects, lpc, ret>>
    /\ CliFrame

\* The worker's runtime instance ends: initialize() and, when it succeeds,
\* run().
EndJob(j) ==
    /\ lpc = "pool"
    /\ jobs[j] = "running"
    /\ \E f \in InitFailures \cup {"none"}, o \in RunOutcomes_job :
         /\ HasCycle(graph) => f # "none"
         /\ jobs' = [jobs EXCEPT ![j] = run_workflow(graph, f, o)]
         /\ effects' = effects \cup InitEffects(f)
    /\ UNCHANGED <<graph, lpc, ret>>
    /\ CliFrame

\* pool.map returns; pool.close(); pool.join(); return result
Return ==
    /\ lpc = "pool"
    /\ \A j \in DOMAIN jobs : jobs[j] \in JobsDone
    /\ ret' = ReturnList(jobs)
    /\ lpc' = "returned"
    /\ UNCHANGED <<graph, jobs, effects>>
    /\ CliFrame

CliNext ==
    \/ LoadDefinition
    \/ ImportJobs
    \/ \E j \in DOMAIN jobs : StartJob(j)
    \/ \E j \in DOMAIN jobs : EndJob(j)
    \/ Return

\* The run command: load the definitions, import the jobs, run them in the
\* pool, return.
CliSpec == CliInit /\ [][CliNext]_vars

\* ---------------------------------------------- job names and job states
\* drmaa.JobState
DrmaaStates ==
    {"UNDETERMINED", "QUEUED_ACTIVE", "SYSTEM_ON_HOLD", "USER_ON_HOLD",
     "USER_SYSTEM_ON_HOLD", "RUNNING", "SYSTEM_SUSPENDED", "USER_SUSPENDED",
     "DONE", "FAILED"}

\* What the backend of context c can answer to one poll of a submitted job:
\* a DRMAA state and the exit status of wait(), the end of the local process
\* and its return code, or the status of the agave job service; "comm" is a
\* poll that failed (DrmCommunicationException, OSError, no agave status).
PollInputs(c) ==
    CASE c = "local" ->
           {[kind |-> "poll", d |-> d, exit |-> e] :
              d \in {"RUNNING", "DONE", "comm"}, e \in 0..MaxExit}
      [] c = "agave" ->
           {[kind |-> "poll", d |-> d, exit |-> 0] :
              d \in {"UNDETERMINED", "QUEUED_ACTIVE", "RUNNING", "DONE",
                     "FAILED", "comm"}}
      [] OTHER ->
           {[kind |-> "poll", d |-> d, exit |-> e] :
              d \in DrmaaStates \cup {"comm"}, e \in 0..MaxExit}

\* How _run_map of context c ends when the backend cannot be reached at the
\* submission: runJob raises DrmCommunicationException (a warning, the item
\* FAILED), jobs_submit of agave and ShellWrapper.spawn of the local process
\* return nothing (both _fatal).
TransientSubmit(c) == IF c \in {"gridengine", "slurm"} THEN "comm" ELSE "fatal"

SubmitInputs == {[kind |-> "submit"]}

\* Characters are numbers: the code points of "g", "f", "-", "." and of the
\* digits, 1000 + i for the i-th character of the slug of the step name and
\* 2000 + i for the i-th character of the slug of template.output.
Slug(base, n) == [i \in 1..n |-> base + i]

\* 'gf-{}-{}-{}'.format(attempt, slugify(step name), slugify(output))
FormatJobName(a, ls, lo) ==
    <<103, 102, 45, 48 + a, 45>> \o Slug(1000, ls) \o <<45>> \o Slug(2000, lo)

\* name[:62]+'..' if len(name) > 64 else name
Agave_truncate(name) ==
    IF Len(name) > 64 THEN SubSeq(name, 1, 62) \o <<46, 46>> ELSE name

\* The name _run_map gives the job (jt.jobName, the agave job name) and its
\* log files in context c: only AgaveStep shortens it.
JobName(c, name) == IF c = "agave" THEN Agave_truncate(name) ELSE name

NameInputs ==
    {[kind |-> "name", attempt |-> a, step |-> ls, output |-> lo] :
       a \in 0..MaxAttempt, ls \in 1..MaxSlug, lo \in 1..MaxSlug}

\* A map item whose job was submitted by run() and is being polled.
SubmittedItem ==
    [status |-> "RUNNING", attempt |-> 0, run |-> <<"RUNNING">>,
     id |-> TRUE, hpc |-> FALSE]

\* ------------------------------------------------------ map URI listings
\* Names are sequences of path segments.  The parsed map URI: its folder,
\* its last segment and chopped_uri = folder + name.
MapUri == [folder |-> <<"w">>, name |-> <<"m">>, chopped_uri |-> <<"w", "m">>]

\* What DataManager.list can return for the map URI: names relative to it,
\* with a '/' (two segments) for an entry of a subfolder.
Listings == {<<>>, <<<<"f">>>>, <<<<"d", "g">>>>, <<<<"f">>, <<"d", "g">>>>}

\* inclusive is step['map']['inclusive'], matches the result of
\* glob.globfilter([uri['name']], step['map']['glob']).
ListInputs ==
    {[kind |-> "list", inclusive |-> i, matches |-> m, listing |-> l] :
       i \in BOOLEAN, m \in BOOLEAN, l \in Listings}

\* The entry of the map URI itself.
SelfEntry == [chopped_uri |-> MapUri.folder, filename |-> MapUri.name]

\* LocalStep._get_map_uri_list, the for loop over file_list from entry k on:
\* a name with a '/' is parsed again and split into folder and name.
RECURSIVE Local_list_entries(_, _)
Local_list_entries(l, k) ==
    IF k > Len(l) THEN <<>>
    ELSE <<IF Len(l[k]) > 1
           THEN [chopped_uri |-> MapUri.chopped_uri
                                   \o SubSeq(l[k], 1, Len(l[k]) - 1),
                 filename |-> <<l[k][Len(l[k])]>>]
           ELSE [chopped_uri |-> MapUri.chopped_uri, filename |-> l[k]]>>
         \o Local_list_entries(l, k + 1)

\* LocalStep._get_map_uri_list and GridengineStep._get_map_uri_list
Local_get_map_uri_list(in) ==
    (IF in.inclusive /\ in.matches THEN <<SelfEntry>> ELSE <<>>)
        \o Local_list_entries(in.listing, 1)

\* SlurmStep._get_map_uri_list and AgaveStep._get_map_uri_list: every listed
\* name is taken as it is, the inclusive flag is not read.
Slurm_get_map_uri_list(in) ==
    [k \in 1..Len(in.listing) |->
        [chopped_uri |-> MapUri.chopped_uri, filename |-> in.listing[k]]]

get_map_uri_list(c, in) ==
    IF c \in {"local", "gridengine"} THEN Local_get_map_uri_list(in)
    ELSE Slurm_get_map_uri_list(in)

\* ------------------------------------------------------- job URIs
\* A URI string is the sequence of its parts: scheme, "://", authority and
\* the path, "/" and segment by segment.
DataSchemes == {"local", "agave"}

Missing == <<>>
Invalid == <<"?">>
LocalRoot == <<"local", "://", "", "/">>
LocalWork == <<"local", "://", "", "/", "w">>
AgaveWork == <<"agave", "://", "sys", "/", "w">>

\* job['work_uri'][scheme]: no entry, a string that does not parse, or a URI.
WorkUriValues == {Missing, Invalid, LocalRoot, LocalWork, AgaveWork}

\* job['output_uri']
OutputUris == {LocalRoot, <<"local", "://", "", "/", "o">>,
               <<"local", "://", "", "/", "o", "/">>,
               <<"agave", "://", "sys", "/", "o">>}

\* URIParser: duplicate slashes of the path are collapsed.
RECURSIVE Collapse(_)
Collapse(p) ==
    IF Len(p) < 2 THEN p
    ELSE IF p[1] = "/" /\ p[2] = "/" THEN Collapse(Tail(p))
    ELSE <<p[1]>> \o Collapse(Tail(p))

\* URIParser: chopped_path has no trailing slash, the root stays "/".
Chop(p) ==
    IF Len(p) > 1 /\ p[Len(p)] = "/" THEN SubSeq(p, 1, Len(p) - 1) ELSE p

\* URIParser.parse: the parsed form of a URI string, ok = FALSE for a string
\* that is not a URI of a data scheme.
URIParser_parse(s) ==
    IF Len(s) < 4 \/ s[1] \notin DataSchemes \/ s[2] # "://" \/ s[4] # "/"
    THEN [ok |-> FALSE, scheme |-> "", authority |-> "", chopped_path |-> <<>>,
          chopped_uri |-> <<>>]
    ELSE LET cp == Chop(Collapse(SubSeq(s, 4, Len(s)))) IN
         [ok |-> TRUE, scheme |-> s[1], authority |-> s[3],
          chopped_path |-> cp, chopped_uri |-> SubSeq(s, 1, 3) \o cp]

\* slugify(job['name']) and job['job_id']
JobDir == <<"j", "o", "b">>
JobId == <<"0", "1", "2", "3", "4", "5", "6", "7", "8", "9">>

\* '{}-{}'.format(job_dir, self._job['job_id'][:8])
JobDirHash == JobDir \o <<"-">> \o SubSeq(JobId, 1, 8)

\* Mutant of Join: the separator is always written.
Join_AlwaysSeparator(parsed, dir) == parsed.chopped_uri \o <<"/">> \o dir

\* ('{}{}' if parsed_uri['chopped_path'] == '/' else '{}/{}').format(
\*     parsed_uri['chopped_uri'], dir)
Join(parsed, dir) ==
    IF parsed.chopped_path = <<"/">> THEN parsed.chopped_uri \o dir
    ELSE parsed.chopped_uri \o <<"/">> \o dir

\* job_dir if self._job['no_output_hash'] else job_dir_hash
OutputDir(no_output_hash) == IF no_output_hash THEN JobDir ELSE JobDirHash

\* job['execution']['context']: the default context and the context of the
\* steps that have an entry of their own; work_uri, output_uri and
\* no_output_hash of the job; mkdir: DataManager.mkdir succeeds.
JobInputs ==
    {[kind |-> "job", default |-> d, over |-> o, work |-> w, output |-> u,
      no_output_hash |-> h, mkdir |-> m] :
       d \in Contexts, o \in [Steps -> Contexts \cup {"default"}],
       w \in [DataSchemes -> WorkUriValues], u \in OutputUris,
       h \in BOOLEAN, m \in BOOLEAN}

\* set(self._job['execution']['context'].values())
ExecContexts(in) ==
    {in.default} \cup ({in.over[s] : s \in Steps} \ {"default"})

\* _inject_job_params: step['execution']['context']
StepContext(in, s) == IF in.over[s] = "default" THEN in.default ELSE in.over[s]

\* The data schemes of the execution contexts of the job.
WorkSchemes(in) == {DataScheme(c) : c \in ExecContexts(in)}

\* Workflow._init_job_uris: ret is the value returned, full the work URI
\* strings built, work self._parsed_job_work_uri, out_full and out the
\* output URI string and self._parsed_job_output_uri.
Workflow_init_job_uris(in) ==
    LET base(d) == URIParser_parse(in.work[d])
        full(d) == Join(base(d), JobDirHash)
        obase == URIParser_parse(in.output)
        ofull == Join(obase, OutputDir(in.no_output_hash))
        ok == /\ \A d \in WorkSchemes(in) :
                    /\ in.work[d] # Missing
                    /\ base(d).ok
                    /\ URIParser_parse(full(d)).ok
              /\ obase.ok
              /\ URIParser_parse(ofull).ok
    IN  IF ok
        THEN [ret |-> TRUE,
              full |-> [d \in WorkSchemes(in) |-> full(d)],
              work |-> [d \in WorkSchemes(in) |-> URIParser_parse(full(d))],
              out_full |-> ofull,
              out |-> URIParser_parse(ofull)]
        ELSE [ret |-> FALSE, full |-> <<>>, work |-> <<>>, out_full |-> <<>>,
              out |-> URIParser_parse(<<>>)]

\* The step of initialize() that fails for the job in ("none": no step
\* fails): _init_job_uris, the DataManager.mkdir calls of _create_job_uris,
\* or _init_dag, where the initialize() of each step rejects a data URI whose
\* scheme is not the one of its class.
InitializeFailure(in) ==
    LET r == Workflow_init_job_uris(in) IN
    IF ~r.ret THEN "job_uris"
    ELSE IF ~in.mkdir THEN "create_job_uris"
    ELSE IF \E s \in Steps :
              r.work[DataScheme(StepContext(in, s))].scheme
                 # DataScheme(StepContext(in, s))
    THEN "dag"
    ELSE "none"

\* ------------------------------------------------------- agave clean_up
\* Map items of an agave step whose poll loop has ended: finished at the
\* first attempt, finished at a retry, or FAILED with the empty record that a
\* retry left whose resubmission failed.
SettledItems ==
    {[status |-> "FINISHED", attempt |-> 0, run |-> <<"FINISHED">>,
      id |-> TRUE, hpc |-> TRUE],
     [status |-> "FINISHED", attempt |-> 1, run |-> <<"FAILED", "FINISHED">>,
      id |-> TRUE, hpc |-> TRUE],
     [status |-> "FAILED", attempt |-> 1, run |-> <<"FAILED", "ABSENT">>,
      id |-> FALSE, hpc |-> FALSE]}

\* Entries of the archive folder of a job.
ArchiveEntries == <<"output", "gf-0-s-o.out", "gf-0-s-o.err", "gf--x.out",
                    "notes.txt">>

\* re.match('^gf-\d*-.*\.(out|err)$', item) on the entries above.
MatchesLogPattern(e) == e \in {"gf-0-s-o.out", "gf-0-s-o.err", "gf--x.out"}

\* items: the map; listing: DataManager.list of an archive folder fails or
\* returns no entry or ArchiveEntries; logdir: the archive has no _log
\* folder, one with the entry "a.log", or one that cannot be listed; fails:
\* the files_import_from_agave calls that fail.
CleanUpInputs ==
    {[kind |-> "cleanup", items |-> m, listing |-> l, logdir |-> g,
      fails |-> f] :
       m \in UNION {[1..n -> SettledItems] : n \in 1..MaxItems},
       l \in {"fail", "empty", "entries"},
       g \in {"absent", "listed", "fail"},
       f \in {"none", "output", "log", "_log"}}

\* One files_import_from_agave call: the entry what of the archive folder
\* (or of its _log folder) of run-attempt a of map item i is imported into
\* the work folder of the step (to = "work") or into its _log folder.
Import(i, a, from, to, what) ==
    [item |-> i, attempt |-> a, from |-> from, to |-> to, what |-> what]

\* The imports of the log files of map item i, from entry k of the listing on.
RECURSIVE LogImports(_, _, _)
LogImports(i, a, k) ==
    IF k > Len(ArchiveEntries) THEN <<>>
    ELSE (IF MatchesLogPattern(ArchiveEntries[k])
          THEN <<Import(i, a, "archive", "_log", ArchiveEntries[k])>>
          ELSE <<>>) \o LogImports(i, a, k + 1)

\* AgaveStep.clean_up for the map items i.. of m: acc.imports are the import
\* calls issued, acc.result is "ok", "fail" (return self._fatal) or "raise"
\* (KeyError: the latest run-attempt record holds no archive_uri).
RECURSIVE Agave_clean_up_calls(_, _, _, _)
Agave_clean_up_calls(m, i, in, acc) ==
    IF i > Len(m) THEN acc
    ELSE IF ~m[i].id THEN [acc EXCEPT !.result = "raise"]
    ELSE
    LET a == m[i].attempt
        out == Append(acc.imports, Import(i, a, "archive", "work", "output"))
        logs == IF in.listing = "entries" THEN LogImports(i, a, 1) ELSE <<>>
        l1 == IF in.fails = "log" /\ logs # <<>> THEN <<logs[1]>> ELSE logs
        sub == <<Import(i, a, "archive/_log", "_log", "a.log")>>
    IN  IF in.fails = "output"
        THEN [result |-> "fail", imports |-> out]
        ELSE IF in.listing = "fail"
        THEN [result |-> "fail", imports |-> out]
        ELSE IF in.fails = "log" /\ logs # <<>>
        THEN [result |-> "fail", imports |-> out \o l1]
        ELSE IF in.logdir = "fail"
        THEN [result |-> "fail", imports |-> out \o logs]
        ELSE IF in.logdir = "listed" /\ in.fails = "_log"
        THEN [result |-> "fail", imports |-> out \o logs \o sub]
        ELSE Agave_clean_up_calls(
                 m, i + 1, in,
                 [acc EXCEPT !.imports =
                     out \o logs
                         \o (IF in.logdir = "listed" THEN sub ELSE <<>>)])

\* ------------------------------------------------- job names of two items
\* 'gf-{}-{}-{}'.format(attempt, slug of the step name, slug of the output)
\* for the slugs s and o.
FormatJobNameOf(a, s, o) == <<103, 102, 45, 48 + a, 45>> \o s \o <<45>> \o o

\* The slug of template.output of a second map item: the one of the first
\* with another character at position p (p = 0: the same map item).
OtherSlug(n, p) == [i \in 1..n |-> IF i = p THEN 2999 ELSE 2000 + i]

\* Two (map item, attempt) pairs of one step that differ in the map item
\* (p > 0) or in the attempt.
PairInputs ==
    {x \in [kind : {"pair"}, step : {1, MaxSlug}, output : {1, MaxSlug},
            a1 : 0..MaxAttempt, a2 : 0..MaxAttempt,
            differ_at : {0, 1, MaxSlug}] :
       /\ x.differ_at <= x.output
       /\ x.differ_at > 0 \/ x.a1 # x.a2}

FnInit ==
    /\ context \in Contexts
    /\ throttle_limit = 0
    /\ fn_in \in PollInputs(context) \cup NameInputs \cup SubmitInputs
                   \cup ListInputs \cup PairInputs
                   \cup {j \in JobInputs : j.default = context}
                   \cup (IF context = "agave" THEN CleanUpInputs ELSE {})
    /\ fn_out = <<>>
    /\ IF fn_in.kind = "submit"
       THEN /\ map = <<NewMapItem>>
            /\ num_running = 0
            /\ job = <<"none">>
            /\ nsub = <<0>>
            /\ blocked = <<FALSE>>
            /\ pc = "run"
       ELSE IF fn_in.kind = "poll"
       THEN /\ map = <<SubmittedItem>>
            /\ num_running = 1
            /\ job = <<IF fn_in.d \in {"DONE", "FAILED"} THEN "ended"
                       ELSE "active">>
            /\ nsub = <<1>>
            /\ blocked = <<FALSE>>
            /\ pc = "check"
       ELSE IF fn_in.kind = "cleanup"
       THEN /\ map = fn_in.items
            /\ num_running = 0
            /\ job = [i \in DOMAIN fn_in.items |-> "ended"]
            /\ nsub = [i \in DOMAIN fn_in.items |-> fn_in.items[i].attempt + 1]
            /\ blocked = [i \in DOMAIN fn_in.items |-> FALSE]
            /\ pc = "clean_up"
       ELSE /\ LoopIdle
            /\ pc = CASE fn_in.kind = "list" -> "iterate"
                      [] fn_in.kind = "job" -> "initialize"
                      [] OTHER -> "run"
    /\ TravIdle
    /\ IF fn_in.kind = "cleanup"
       THEN /\ msg = ""
            /\ status = "RUNNING"
            /\ db = [status |-> "RUNNING", msg |-> ""]
            /\ started = 1
            /\ finished = 0
            /\ notified = <<>>
            /\ notifications = FALSE
       ELSE StoreIdle
    /\ NtIdle /\ CliIdle /\ CtxIdle

\* check_running_jobs() with the answer fn_in of the backend.
PollOnce ==
    /\ pc = "check"
    /\ fn_in.kind = "poll"
    /\ LET st == StepCheck(StepState,
                           <<[poll |-> fn_in.d, exit |-> fn_in.exit,
                              sub |-> "ok", hist |-> "nomatch"]>>) IN
       /\ Install(st)
       /\ pc' = IF st.crash THEN "crash" ELSE "loop"
    /\ fn_out' = <<map'[1].run[1]>>
    /\ UNCHANGED <<confVars, checkpoint, msg, storeVars, jobVars, travVars,
                   ntVars, cliVars, ctxVars, fn_in>>

\* run() of a step of one map item whose submission cannot reach the backend.
SubmitOnce ==
    /\ pc = "run"
    /\ fn_in.kind = "submit"
    /\ LET st == StepRun(StepState, <<TransientSubmit(context)>>) IN
       /\ Install(st)
       /\ pc' = IF st.ret THEN "check" ELSE "fatal"
       /\ msg' = IF st.ret THEN msg ELSE "run"
    /\ fn_out' = <<map'[1].run[1]>>
    /\ UNCHANGED <<confVars, checkpoint, storeVars, jobVars, travVars,
                   ntVars, cliVars, ctxVars, fn_in>>

\* _run_map: the job name of the map item.
MakeJobName ==
    /\ pc = "run"
    /\ fn_in.kind = "name"
    /\ fn_out' = JobName(context,
                         FormatJobName(fn_in.attempt, fn_in.step,
                                       fn_in.output))
    /\ pc' = "loop"
    /\ UNCHANGED <<confVars, loopVars, checkpoint, msg, storeVars, jobVars,
                   travVars, ntVars, cliVars, ctxVars, fn_in>>

\* iterate_map_uri: self._get_map_uri_list() of a step with a map.
GetMapUriList ==
    /\ pc = "iterate"
    /\ fn_in.kind = "list"
    /\ fn_out' = <<get_map_uri_list(context, fn_in)>>
    /\ pc' = "loop"
    /\ UNCHANGED <<confVars, loopVars, checkpoint, msg, storeVars, jobVars,
                   travVars, ntVars, cliVars, ctxVars, fn_in>>

\* Workflow.initialize() of a job whose definitions were loaded and whose
\* backend contexts initialize: the URIs are built, the directories made and
\* the steps initialized.
InitializeJob ==
    /\ pc = "initialize"
    /\ fn_in.kind = "job"
    /\ fn_out' = <<Workflow_init_job_uris(fn_in)>>
    /\ IF InitializeFailure(fn_in) = "none"
       THEN /\ pc' = "initialized"
            /\ UNCHANGED <<msg, storeVars>>
       ELSE CtxFatal(InitializeFailure(fn_in), "init_failed")
    /\ UNCHANGED <<confVars, loopVars, checkpoint, jobVars, travVars,
                   ntVars, cliVars, ctxVars, fn_in>>

\* Workflow.run(): if not node['node'].clean_up(): return self._fatal(msg),
\* for an agave step.
CleanUpOnce ==
    /\ pc = "clean_up"
    /\ fn_in.kind = "cleanup"
    /\ LET r == Agave_clean_up_calls(map, 1, fn_in,
                                     [result |-> "ok", imports |-> <<>>])
       IN  /\ fn_out' = <<r>>
           /\ CASE r.result = "ok" ->
                     /\ pc' = "stage"
                     /\ UNCHANGED <<msg, storeVars>>
                [] r.result = "fail" ->
                     /\ InstallStore(Workflow_fatal(StoreState, "clean_up",
                                                    TRUE, "ok", "sent"))
                     /\ msg' = "clean_up"
                     /\ pc' = "run_failed"
                [] OTHER ->
                     /\ pc' = "crash"
                     /\ UNCHANGED <<msg, storeVars>>
    /\ UNCHANGED <<confVars, loopVars, checkpoint, jobVars, travVars,
                   ntVars, cliVars, ctxVars, fn_in>>

\* _run_map of two (map item, attempt) pairs of one step: the names of the
\* two jobs, which in AgaveStep are also the names of their archive folders
\* (deleted before the submission if they exist) and everywhere the names of
\* the log files _log/<name>.out and _log/<name>.err.
MakeTwoJobNames ==
    /\ pc = "run"
    /\ fn_in.kind = "pair"
    /\ fn_out' = <<JobName(context,
                           FormatJobNameOf(fn_in.a1, Slug(1000, fn_in.step),
                                           Slug(2000, fn_in.output))),
                   JobName(context,
                           FormatJobNameOf(fn_in.a2, Slug(1000, fn_in.step),
                                           OtherSlug(fn_in.output,
                                                     fn_in.differ_at)))>>
    /\ pc' = "loop"
    /\ UNCHANGED <<confVars, loopVars, checkpoint, msg, storeVars, jobVars,
                   travVars, ntVars, cliVars, ctxVars, fn_in>>

FnNext ==
    \/ SubmitOnce
    \/ PollOnce
    \/ MakeJobName
    \/ MakeTwoJobNames
    \/ GetMapUriList
    \/ InitializeJob
    \/ CleanUpOnce

\* One submission, one poll of a submitted job, one job name, the job names
\* of two map items, one map listing, one initialize() and one clean_up of an
\* agave step, for every input.
FnSpec == FnInit /\ [][FnNext]_vars

\* ------------------------------------------------------------ properties
Terminal == {"FINISHED", "FAILED"}

\* Map items whose job has been submitted and is not yet FINISHED or FAILED.
InFlight == {i \in Items : map[i].id /\ map[i].status \notin Terminal}

Retrying == {"gridengine", "slurm", "agave"}

\* C1: in the local and gridengine executors, with throttle_limit k > 0, the
\* number of map items whose job is submitted and not yet FINISHED or FAILED
\* never exceeds k.
C1_ThrottledInFlight ==
    (context \in {"local", "gridengine"} /\ throttle_limit > 0)
        => Cardinality(InFlight) <= throttle_limit

\* C1 witness: a gridengine step at its throttle limit of 1 after a retry,
\* with a second item still waiting to be submitted.
C1_Witness ==
    /\ context = "gridengine" /\ throttle_limit = 1 /\ Len(map) = 2
    /\ Cardinality(InFlight) = 1
    /\ \E i \in Items : map[i].attempt >= 1 /\ i \in InFlight
    /\ \E i \in Items : map[i].status = "PENDING" /\ ~map[i].id

\* C2: each (map item, attempt) pair is submitted to the backend at most once.
C2_SubmittedAtMostOnce == \A i \in Items : nsub[i] <= 1

\* C3: the slurm and agave executors never have more than throttle_limit
\* submitted, non-terminal jobs when throttle_limit > 0.
C3_RemoteThrottle ==
    (context \in {"slurm", "agave"} /\ throttle_limit > 0)
        => Cardinality(InFlight) <= throttle_limit

\* C4: in the gridengine and local executors num_running equals the number
\* of map items with a job in flight.
C4_CounterIsInFlight ==
    context \in {"local", "gridengine"} => num_running = Cardinality(InFlight)

C6_AttemptAndRunLength ==
    /\ [](\A i \in Items : /\ map[i].attempt <= 5
                           /\ Len(map[i].run) = map[i].attempt + 1)
    /\ [][\A i \in Items : map'[i].attempt >= map[i].attempt]_vars

\* C6 witness: a retry whose resubmission failed left a fresh, empty
\* run-attempt record behind an item that is still FAILED.
C6_Witness ==
    \E i \in Items : /\ map[i].attempt >= 1
                     /\ map[i].status = "FAILED"
                     /\ map[i].run[map[i].attempt + 1] = "ABSENT"
                     /\ ~map[i].id

\* C7: the poll loop never reaches a state in which it cannot end and can
\* make no progress: items are unsubmitted or eligible for a retry, nothing
\* is in flight, and neither run() nor check_running_jobs() changes anything
\* whatever the backend answers.
C7_NoLivelock ==
    ~ /\ pc = "run"
      /\ ~all_done(map)
      /\ InFlight = {}
      /\ \E i \in Items :
            \/ map[i].status = "PENDING" /\ ~map[i].id
            \/ map[i].status = "FAILED" /\ map[i].attempt < MaxAttempt
      /\ \A out \in [Items -> RunOutcomes] : StepRun(StepState, out) = StepState
      /\ \A rs \in [Items -> CheckInputs] : StepCheck(StepState, rs) = StepState

\* C8: every check_running_jobs() pass of the agave executor that leaves a
\* map item FAILED which had attempt < 5 has retried it (attempt incremented).
C8_AgaveRetriesEveryFailure ==
    [][(context = "agave" /\ pc = "check" /\ pc' = "loop")
         => \A i \in Items :
              (map'[i].status = "FAILED" /\ map[i].attempt < MaxAttempt)
                 => map'[i].attempt = map[i].attempt + 1]_vars

\* C9: in the gridengine executor with throttle_limit k > 0 the poll loop
\* does not end while an item whose retry the throttle refused is still
\* waiting although a slot is free.
C9_BlockedRetryBeforeLoopEnds ==
    (context = "gridengine" /\ throttle_limit > 0 /\ pc = "done")
        => \A i \in Items : ~(blocked[i] /\ num_running < throttle_limit)

\* C10: in the slurm executor an item that is FINISHED after a retry keeps
\* that status and its run-attempt records until the poll loop has ended.
C10_RetrySuccessIsFinal ==
    [][\A i \in Items :
         (context = "slurm" /\ map[i].status = "FINISHED"
          /\ map[i].attempt >= 1)
            => (map'[i].status = "FINISHED"
                /\ Len(map'[i].run) = Len(map[i].run))]_vars

\* C11: the local executor never retries: every map item of a local step
\* keeps attempt = 0 and one run record, and run() and check_running_jobs()
\* leave a FAILED item FAILED and spawn no process for it.
C11_LocalNeverRetries ==
    /\ [](context = "local"
            => \A i \in Items : /\ map[i].attempt = 0
                                /\ Len(map[i].run) = 1)
    /\ [][\A i \in Items :
            (context = "local" /\ pc \in {"run", "check"}
             /\ map[i].status = "FAILED")
                => /\ map'[i].status = "FAILED"
                   /\ nsub'[i] = nsub[i]
                   /\ job'[i] = job[i]]_vars

\* C11 witness: the poll loop of a local step has ended with one item FAILED
\* by a spawn failure and the other FAILED later by a non-zero exit.
C11_Witness ==
    /\ context = "local" /\ pc = "done" /\ Len(map) = 2
    /\ map[1].status = "FAILED" /\ nsub[1] = 0
    /\ map[2].status = "FAILED" /\ nsub[2] = 1

\* Processing of a node has ended in a failure of the run.
Aborted == pc \in {"fatal", "run_failed", "crash"}

\* C12: nodes are processed one at a time in the order of the topological
\* sort: a node is begun only when every node before it in that order, and
\* so every node it depends on, has been staged successfully, and once a
\* node has failed no further node is begun.
C12_TopologicalOrder ==
    /\ [](\A k \in DOMAIN order :
            order[k] \in began => \A j \in 1..(k - 1) : order[j] \in done)
    /\ [](\A e \in dag : e[2] \in began => e[1] \in done)
    /\ [][Aborted => began' = began]_vars

\* C12 witness: in the fork the last node of the order is a step that has
\* begun its poll loop after the input and the other step were staged.
C12_Witness ==
    /\ dag = {<<"in", "a">>, <<"in", "b">>}
    /\ order[3] \in began /\ order[3] \in Steps
    /\ pc = "check"
    /\ done = {order[1], order[2]}

\* The phases of a step and the phase each one follows.
PhaseOrder ==
    {<<"iterate", "loop">>, <<"loop", "run">>, <<"run", "check">>,
     <<"check", "loop">>, <<"loop", "done">>, <<"done", "clean_up">>,
     <<"clean_up", "stage">>}

\* C13: within a step the phases follow the order iterate_map_uri, (run,
\* check_running_jobs) repeated, checkpoint, clean_up, stage, and clean_up
\* is called only when every map item is FINISHED or FAILED and the
\* checkpoint policy has accepted them.
C13_PhaseOrder ==
    /\ [](pc \in {"clean_up", "stage"}
            => /\ all_done(map)
               /\ checkpoint[Node].policy \in Policies
               /\ checkpoint[Node].ok
               /\ WorkflowStep_checkpoint(checkpoint[Node].policy, map))
    /\ [][(pc' # pc /\ pc' \in {"loop", "run", "check", "done", "clean_up",
                                "stage"})
            => <<pc, pc'>> \in PhaseOrder]_vars

\* C13 witness: an agave step of two items is at clean_up under policy any
\* after a retry, one item FINISHED and one FAILED.
C13_Witness ==
    /\ context = "agave" /\ pc = "clean_up" /\ Len(map) = 2
    /\ checkpoint[Node].policy = "any"
    /\ \E i \in Items : map[i].status = "FAILED"
    /\ \E i \in Items : map[i].status = "FINISHED" /\ map[i].attempt >= 1

\* C14: stage_final is called only after every node has been staged
\* successfully (so never after a node failed), and job status FINISHED is
\* written only after stage_final succeeded for every step.
C14_StageFinalLast ==
    /\ (pc = "final" \/ finaled # {}) => done = NodesOf(order)
    /\ (Aborted /\ done # NodesOf(order)) => finaled = {}
    /\ db.status = "FINISHED" => finaled = Steps

\* C14 witness: the job is FINISHED in the store after both stage_final calls.
C14_Witness ==
    /\ pc = "finished" /\ db.status = "FINISHED" /\ finaled = Steps

\* C15: when the job status is FINISHED, the checkpoint of every step was
\* evaluated on its settled map items and returned true.
C15_FinishedImpliesCheckpoints ==
    db.status = "FINISHED"
        => \A s \in Steps : checkpoint[s].policy \in Policies
                            /\ checkpoint[s].ok

\* C15 witness: the job is FINISHED and a step passed checkpoint any with a
\* FAILED item next to a FINISHED one.
C15_Witness ==
    /\ db.status = "FINISHED"
    /\ checkpoint[order[3]].policy = "any"
    /\ \E i \in Items : map[i].status = "FAILED"
    /\ \E i \in Items : map[i].status = "FINISHED"

\* The checkpoint of step s was evaluated and returned false.
CheckpointFailed(s) == checkpoint[s].policy \in Policies /\ ~checkpoint[s].ok

\* The nodes of the graph that depend on step s.
Dependents(s) == {n \in Nodes : <<s, n>> \in dag}

C17_AnyAcceptedCleansUp ==
    ~ /\ pc = "crash"
      /\ checkpoint[Node].policy = "any" /\ checkpoint[Node].ok
      /\ all_done(map)
      /\ \E i \in Items : map[i].status = "FINISHED"

\* The transitions of the persisted job status.
StatusOrder ==
    {<<"PENDING", "RUNNING">>, <<"RUNNING", "FINISHED">>,
     <<"RUNNING", "ERROR">>, <<"PENDING", "ERROR">>}

\* C18: the persisted job status only follows PENDING -> RUNNING ->
\* FINISHED|ERROR or PENDING -> ERROR: FINISHED and ERROR are never left and
\* FINISHED is never written over a status other than RUNNING.
C18_StatusTransitions ==
    [][db'.status # db.status
         => <<db.status, db'.status>> \in StatusOrder]_vars

\* C19: the start time is written once, by the first update that leaves
\* PENDING, and the finish time is written once, when and only when the job
\* enters FINISHED or ERROR.
C19_TimestampsOnce ==
    /\ started <= 1
    /\ finished <= 1
    /\ started = 1 => db.status # "PENDING"
    /\ finished >= 1 <=> db.status \in {"FINISHED", "ERROR"}

\* C20: no exception leaves initialize() or run(), and when either returns
\* False the store holds status ERROR with the message of the failure and,
\* with notifications configured, the ERROR notification has been posted.
C20_FailureReturnsFalse ==
    /\ pc # "crash"
    /\ pc \in {"init_failed", "run_failed"}
         => /\ db = [status |-> "ERROR", msg |-> msg]
            /\ notifications => "ERROR" \in NodesOf(notified)

\* C21: a notification never fails the run: whenever _update_status_db
\* notifies, every recipient of every endpoint is posted to, no exception
\* leaves the call, and the status becomes the new one and is handed to the
\* store.
C21_NotificationsNeverFail ==
    [][posts' # posts
         => /\ pc' # "crash"
            /\ Len(posts') >= Len(posts) + Len(Recipients(endpoints, 1))
            /\ status' = posts'[Len(posts')][1]
            /\ db'.status = status' \/ db' = db]_vars

\* One POST per recipient of each endpoint, in the order of the job's list.
Round(s) ==
    LET rs == Recipients(endpoints, 1) IN
    [k \in 1..Len(rs) |-> <<s, rs[k][1], rs[k][2]>>]

\* C22: every change of the job status is notified exactly once with one POST
\* per recipient of each endpoint, a notification always reaches every
\* recipient, and an update that repeats the current status posts nothing.
C22_NotifiedOncePerChange ==
    [][/\ status' # status => posts' = posts \o Round(status')
       /\ posts' # posts
            => \E s \in {"RUNNING", "FINISHED", "ERROR"} :
                 posts' = posts \o Round(s)
       /\ (status' = status /\ pc' # "crash") => posts' = posts]_vars

\* C23: when a workflow definition is rejected for a cycle in its step
\* dependencies, no job record, no backend context and no work or output
\* directory has been created.
C23_CycleRejectedBeforeEffects ==
    \A j \in DOMAIN jobs :
        jobs[j] = "rejected"
            => effects \cap {"job_record", "context", "work_dir",
                              "output_dir"} = {}

C28_SuccessOnlyIfAllSucceeded ==
    (lpc = "returned" /\ ExitCode(ret) = 0)
        => (ret.kind = "list" /\ \A j \in DOMAIN jobs : jobs[j] = "ok")

C26_TransientFailureMarksFailed ==
    (/\ fn_out # <<>>
     /\ \/ fn_in.kind = "submit"
        \/ fn_in.kind = "poll" /\ fn_in.d = "comm") =>
        /\ pc \notin {"fatal", "crash"}
        /\ fn_out = <<"FAILED">>

C30_JobNameAtMost64 ==
    (fn_out # <<>> /\ fn_in.kind = "name") =>
        LET name == FormatJobName(fn_in.attempt, fn_in.step, fn_in.output) IN
        /\ Len(fn_out) <= 64
        /\ fn_out = IF Len(name) <= 64 THEN name
                    ELSE SubSeq(name, 1, 62) \o <<46, 46>>

\* C35: FINISHED is absorbing for a map item in every executor: while the
\* poll loop runs, no run() or check_running_jobs() call changes the status,
\* the attempt counter or the run-attempt records of a FINISHED item or
\* submits a job for it.
C35_FinishedIsAbsorbing ==
    [][(pc \in {"run", "check"}) =>
         \A i \in Items :
            map[i].status = "FINISHED" =>
               (/\ map'[i].status = "FINISHED"
                /\ map'[i].attempt = map[i].attempt
                /\ map'[i].run = map[i].run
                /\ nsub'[i] = nsub[i])]_vars

\* C36: check_running_jobs() and clean_up() never read a backend identifier
\* from a latest run-attempt record that does not hold it: no KeyError
\* leaves them.
C36_IdentifierPresentWhenRead ==
    [][(pc \in {"check", "clean_up"} /\ pc' = "crash") =>
         \A i \in Items : map[i].id]_vars

\* C37: after every check_running_jobs() call the status of the latest
\* run-attempt record of every map item equals the status of the item; a
\* record without a status is read as PENDING, as _serialize_detail does.
C37_RunStatusIsItemStatus ==
    [][(pc = "check" /\ pc' = "loop") =>
         \A i \in Items :
            LET rec == map'[i].run[map'[i].attempt + 1] IN
            (IF rec = "ABSENT" THEN "PENDING" ELSE rec) = map'[i].status]_vars

\* C34: in every executor the map URI itself is an entry of the map-item
\* list if and only if the map is inclusive and its name matches the glob,
\* and the list is the one the local executor builds for the same listing,
\* glob and inclusive flag.
C34_InclusiveMapUriInEveryExecutor ==
    (fn_out # <<>> /\ fn_in.kind = "list") =>
        /\ (\E k \in DOMAIN fn_out[1] : fn_out[1][k] = SelfEntry)
              <=> (fn_in.inclusive /\ fn_in.matches)
        /\ fn_out[1] = Local_get_map_uri_list(fn_in)

\* The context c of the job in has no work URI of its data scheme: no entry,
\* no URI, or a URI of another scheme.
NoWorkUri(in, c) ==
    LET w == in.work[DataScheme(c)] IN
    \/ w = Missing
    \/ ~URIParser_parse(w).ok
    \/ URIParser_parse(w).scheme # DataScheme(c)

\* C31: after a successful initialize() every execution context declared in
\* the job has a work URI whose parsed scheme is the data scheme of the
\* context, and a job in which such a work URI is missing or has another
\* scheme is rejected with ERROR.
C31_WorkUriSchemeOfEveryContext ==
    (fn_out # <<>> /\ fn_in.kind = "job") =>
        /\ (pc = "initialized") =>
              \A c \in ExecContexts(fn_in) :
                 fn_out[1].work[DataScheme(c)].scheme = DataScheme(c)
        /\ (\E c \in ExecContexts(fn_in) : NoWorkUri(fn_in, c)) =>
              (pc = "init_failed" /\ status = "ERROR")

\* The string base with dir appended as one more path segment.
Under(base, dir) ==
    IF base[Len(base)] = "/" THEN base \o dir ELSE base \o <<"/">> \o dir

\* No two separators follow each other in the path of the URI string s.
NoDoubledSeparator(s) ==
    \A k \in 4..(Len(s) - 1) : ~(s[k] = "/" /\ s[k + 1] = "/")

\* C32: every work URI of a job is the configured base plus the hashed
\* directory <slug(name)>-<job_id[:8]>; the output URI is the base plus the
\* unhashed <slug(name)> if and only if no_output_hash is true, otherwise
\* plus the hashed directory; a base path of '/' gets no doubled separator.
C32_JobUrisAreBasePlusDirectory ==
    (fn_out # <<>> /\ fn_in.kind = "job") =>
        (fn_out[1].ret =>
           LET r == fn_out[1] IN
           /\ \A d \in DOMAIN r.full :
                 /\ r.full[d] = Under(fn_in.work[d], JobDirHash)
                 /\ NoDoubledSeparator(r.full[d])
                 /\ r.work[d].chopped_uri = r.full[d]
           /\ r.out_full = Under(fn_in.output,
                                 IF fn_in.no_output_hash THEN JobDir
                                 ELSE JobDirHash)
           /\ fn_in.no_output_hash
                 <=> (r.out_full[Len(r.out_full)] = JobDir[Len(JobDir)])
           /\ NoDoubledSeparator(r.out_full)
           /\ r.out.chopped_uri = r.out_full)

\* C32 witness: an initialized job whose work and output base are the root
\* of the local file system and whose output directory is not hashed.
C32_Witness ==
    /\ fn_out # <<>>
    /\ fn_in.kind = "job"
    /\ pc = "initialized"
    /\ fn_in.work["local"] = LocalRoot
    /\ fn_in.output = LocalRoot
    /\ fn_in.no_output_hash
    /\ fn_out[1].out_full = LocalRoot \o JobDir

\* C33: clean_up of an agave step, called after the poll loop has ended,
\* issues for every map item an import of <archive_uri>/<template.output> of
\* the latest run-attempt into the work URI of the step and an import of
\* every archive entry gf-<n>-*.out or gf-<n>-*.err into its _log folder; a
\* failed import makes clean_up fail and the job end in ERROR.
C33_EveryItemImported ==
    (fn_out # <<>> /\ fn_in.kind = "cleanup") =>
        LET r == fn_out[1]
            Issued(x) == \E k \in DOMAIN r.imports : r.imports[k] = x
            Failed(x) ==
                \/ fn_in.fails = "output" /\ x.what = "output"
                \/ fn_in.fails = "log" /\ x.from = "archive" /\ x.to = "_log"
                \/ fn_in.fails = "_log" /\ x.from = "archive/_log"
            All ==
                \A i \in DOMAIN map :
                   /\ Issued(Import(i, map[i].attempt, "archive", "work",
                                    "output"))
                   /\ (fn_in.listing = "entries") =>
                         \A e \in {"gf-0-s-o.out", "gf-0-s-o.err"} :
                            Issued(Import(i, map[i].attempt, "archive",
                                          "_log", e))
        IN  /\ \/ pc = "stage" /\ All
               \/ pc = "run_failed" /\ status = "ERROR"
            /\ (\E k \in DOMAIN r.imports : Failed(r.imports[k])) =>
                  (pc = "run_failed" /\ status = "ERROR")

\* C38: within a step, distinct (map item, attempt) pairs get distinct job
\* names, so that no submission of an agave step deletes or reuses the
\* archive path of another map item or attempt and no two jobs write the
\* same _log/<name>.out and .err files.
C38_DistinctJobNames ==
    (fn_out # <<>> /\ fn_in.kind = "pair") => fn_out[1] # fn_out[2]

====
